---- MODULE Spec2Model ----
(***************************************************************************)
(* Stock_War_Room_v2: institutional-investor ("chip") metrics, the monthly *)
(* report's chip fetch with retry/backoff, the report run and the          *)
(* dashboard's response cache.                                             *)
(*                                                                         *)
(* Net-buy figures are kept in shares (integers); the code divides by 1000 *)
(* to get lots, so a reported int(x) is the truncation of shares / 1000.   *)
(* Text labels that the code writes in Chinese are given in pinyin.        *)
(***************************************************************************)
EXTENDS Integers, Sequences, FiniteSets, TLC

VARIABLES
    chip_df,        \* calc_chip_strength: the table handed in (get_chip_data's pivot)
    chip_str,       \* calc_chip_strength: the dict returned
    strengthPc,     \* "input" while the table is being delivered, "done" after the call
    scanFn,         \* the scan running: "consecutive" or "concentration"
    scanArg,        \* its argument: consecutive_days or lookback_days
    scanPos,        \* how many of the scan targets the loop has gone through
    pivot,          \* _fetch_chip_history's answer for the current target
    results,        \* the scan's results list, then the returned table's rows
    scanPc,         \* "loop", "history" (the provider is answering), "done"
    reqDays,        \* fetch_chip_summary: its argument days
    fetchPc,        \* fetch_chip_summary: "new", "try", "sleep", "after", "done", "raised"
    attempt,        \* fetch_chip_summary: the loop variable i
    raw,            \* fetch_chip_summary: the local raw
    calls,          \* the provider's answers to the calls made so far, in order
    sleeps,         \* the seconds of every time.sleep so far, in order
    fetchRes,       \* fetch_chip_summary: the dict returned
    dry_run,        \* main: args.dry_run
    api_key,        \* _load_api_key(): TRUE when a key is configured
    inventoryFile,  \* inventory.md: whether it exists, and the entries it yields
    inventory,      \* build_report: the local inventory
    itemPos,        \* build_report: how many holdings the loop has gone through
    reportRows,     \* build_report: the local rows
    apiCalls,       \* every request to an external service so far, in order
    reportPc,       \* where build_report stands
    now,            \* the dashboard's clock, in seconds
    cache,          \* st.cache_data: per function and arguments, the stored result
    feed,           \* what the provider (or inventory.md) would answer at present
    lastRun,        \* get_tw_chip_top_buys: its last run since the cache was cleared
    lastCall,       \* the last call of one of these functions: what it did and returned
    invLoader,      \* which loader runs: "engine" (DataEngine.load_inventory) or "report"
    invFile,        \* inventory.md for the loader: whether it exists, and its table rows
    invMatches,     \* the loader's local rows: the groups re.findall captured
    invPos,         \* how many of them the loop has turned into entries
    invOut,         \* the loader's local inventory, then the list returned
    invPc,          \* "start", "loop", "done", or "raised" (an exception left the loader)
    signal_df,      \* check_right_side_signal: the price table handed in, oldest row first
    signal,         \* check_right_side_signal: the label returned
    signalPc,       \* "input" while the table is being delivered, "done" after the call
    send_email_flag,\* main: args.send_email
    app_password,   \* send_email: TRUE when GMAIL_APP_PASSWORD is set
    recipients_raw, \* send_email: the local recipients_raw, as text
    recipients,     \* send_email: the local recipients
    smtp,           \* the SMTP operations so far, in order, and whether each raised
    mailRes,        \* send_email: "None" before it returns, then "True" or "False"
    mainPc,         \* main: "report", "smtp" (send_email at its try), "finished"
    top_df,         \* get_tw_chip_top_buys: the provider's answer for the current target
    top_results,    \* get_tw_chip_top_buys: the local results, then the returned rows
    topPos,         \* how many of the scan targets its loop has gone through
    topPc,          \* "loop", "answered" (the provider has answered), "done"
    last_date,      \* _generate_future_timestamps: its argument, as a day number (day % 7: 0 Monday .. 6 Sunday)
    pred_days,      \* _generate_future_timestamps: its argument pred_days
    current,        \* _generate_future_timestamps: the local current
    added,          \* _generate_future_timestamps: the local added
    future_dates,   \* _generate_future_timestamps: the local future_dates, then the series returned
    tsPc            \* "loop" or "done"

strengthVars == <<chip_df, chip_str, strengthPc>>

scanVars == <<scanFn, scanArg, scanPos, pivot, results, scanPc>>

fetchVars == <<reqDays, fetchPc, attempt, raw, calls, sleeps, fetchRes>>

reportVars ==
    <<dry_run, api_key, inventoryFile, inventory, itemPos, reportRows, apiCalls, reportPc>>

cacheVars == <<now, cache, feed, lastRun, lastCall>>

invVars == <<invLoader, invFile, invMatches, invPos, invOut, invPc>>

signalVars == <<signal_df, signal, signalPc>>

mailVars == <<send_email_flag, app_password, recipients_raw, recipients, smtp, mailRes, mainPc>>

topVars == <<top_df, top_results, topPos, topPc>>

tsVars == <<last_date, pred_days, current, added, future_dates, tsPc>>

\* everything but the variables of one part
restStrength == <<scanVars, fetchVars, reportVars, cacheVars, invVars, signalVars, mailVars, topVars, tsVars>>
restScan == <<strengthVars, fetchVars, reportVars, cacheVars, invVars, signalVars, mailVars, topVars, tsVars>>
restFetch == <<strengthVars, scanVars, reportVars, cacheVars, invVars, signalVars, mailVars, topVars, tsVars>>
restReport == <<strengthVars, scanVars, fetchVars, cacheVars, invVars, signalVars, mailVars, topVars, tsVars>>
restCache == <<strengthVars, scanVars, fetchVars, reportVars, invVars, signalVars, mailVars, topVars, tsVars>>
restInv == <<strengthVars, scanVars, fetchVars, reportVars, cacheVars, signalVars, mailVars, topVars, tsVars>>
restSignal == <<strengthVars, scanVars, fetchVars, reportVars, cacheVars, invVars, mailVars, topVars, tsVars>>
restMail == <<strengthVars, scanVars, fetchVars, reportVars, cacheVars, invVars, signalVars, topVars, tsVars>>
restTop == <<strengthVars, scanVars, fetchVars, reportVars, cacheVars, invVars, signalVars, mailVars, tsVars>>
restTs == <<strengthVars, scanVars, fetchVars, reportVars, cacheVars, invVars, signalVars, mailVars, topVars>>

vars == <<chip_df, chip_str, strengthPc,
          scanFn, scanArg, scanPos, pivot, results, scanPc,
          reqDays, fetchPc, attempt, raw, calls, sleeps, fetchRes,
          dry_run, api_key, inventoryFile, inventory, itemPos, reportRows, apiCalls,
          reportPc, now, cache, feed, lastRun, lastCall,
          invLoader, invFile, invMatches, invPos, invOut, invPc,
          signal_df, signal, signalPc,
          send_email_flag, app_password, recipients_raw, recipients, smtp, mailRes, mainPc,
          top_df, top_results, topPos, topPc,
          last_date, pred_days, current, added, future_dates, tsPc>>

-----------------------------------------------------------------------------
(* Bounds of the model *)

\* days of history the provider may report freely (any value in any column)
MaxFreeDays == 3
\* days of history in all; the days after the free ones repeat the last day
MaxDays == 7

\* days of history a scan's provider answer may hold
MaxScanDays == 4

\* net buy of one institution on one day, in shares
NetVals == {-1500, 0, 2500}

\* the same, per institution, in the scans' histories
ScanNetVals(c) ==
    CASE c = "Foreign_Investor"    -> NetVals
      [] c = "Investment_Trust"    -> {0, 1200}
      [] c = "Foreign_Dealer_Self" -> {0, 800}
      [] OTHER                     -> {-500, 0}

-----------------------------------------------------------------------------
(* Small arithmetic *)

Abs(x) == IF x < 0 THEN -x ELSE x

Min(a, b) == IF a < b THEN a ELSE b

Max(a, b) == IF a > b THEN a ELSE b

\* Python's int(x / d) for d > 0: truncation toward zero
TruncDiv(x, d) == IF x >= 0 THEN x \div d ELSE -((-x) \div d)

\* round(x / d, 0) with ties to the even neighbour, d > 0
RoundHalfEvenDiv(x, d) ==
    LET q == x \div d
        r == x - q * d
    IN  IF 2 * r < d THEN q
        ELSE IF 2 * r > d THEN q + 1
        ELSE IF q % 2 = 0 THEN q ELSE q + 1

RECURSIVE SumSeq(_)
SumSeq(s) == IF s = <<>> THEN 0 ELSE Head(s) + SumSeq(Tail(s))

\* pandas .tail(n) for n >= 0
TailN(s, n) == IF Len(s) <= n THEN s ELSE SubSeq(s, Len(s) - n + 1, Len(s))

-----------------------------------------------------------------------------
(* Tables: the pivot of institutional net buys, index = date, columns = name *)

\* The provider's institution names, in the order pandas' groupby/unstack
\* leaves them (sorted)
ProviderNames ==
    <<"Dealer_Hedging", "Dealer_self", "Foreign_Dealer_Self",
      "Foreign_Investor", "Investment_Trust">>

\* The words of a column name; `sub in str(c)` of the code is modelled as
\* "sub is one of the words of c" (exact for the provider's names and the
\* substrings the code looks for)
Words(c) ==
    CASE c = "Dealer_Hedging"      -> {"Dealer", "Hedging"}
      [] c = "Dealer_self"         -> {"Dealer", "self"}
      [] c = "Foreign_Dealer_Self" -> {"Foreign", "Dealer", "Self"}
      [] c = "Foreign_Investor"    -> {"Foreign", "Investor"}
      [] c = "Investment_Trust"    -> {"Investment", "Trust"}
      [] OTHER                     -> {}

HasSub(c, sub) == sub \in Words(c)

\* A cell: a number, or missing (NaN)
Cell(v) == [na |-> FALSE, val |-> v]
NaN == [na |-> TRUE, val |-> 0]

\* next((c for c in cols if c matches), None), matching being the set of
\* names that satisfy the condition
RECURSIVE FirstCol(_, _)
FirstCol(cols, matching) ==
    IF cols = <<>> THEN "None"
    ELSE IF Head(cols) \in matching THEN Head(cols)
    ELSE FirstCol(Tail(cols), matching)

\* the names of cols as a set
NameSet(cols) == {cols[j] : j \in 1..Len(cols)}

\* the column c of a table, oldest day first
Column(t, c) == [i \in 1..Len(t.rows) |-> t.rows[i][c]]

\* Series.dropna()
DropNa(series) == SelectSeq(series, LAMBDA x : ~x.na)

\* Series.sum(): missing values are skipped
RECURSIVE SumCells(_)
SumCells(s) ==
    IF s = <<>> THEN 0
    ELSE (IF Head(s).na THEN 0 ELSE Head(s).val) + SumCells(Tail(s))

\* DataFrame.empty
IsEmpty(t) == Len(t.rows) = 0 \/ Len(t.cols) = 0

EmptyTable == [cols |-> <<>>, rows |-> <<>>]

-----------------------------------------------------------------------------
(* The parts of the program a specification leaves out stay idle *)

NoStrength ==
    [foreign_streak |-> 0, trust_streak |-> 0,
     foreign_5d_sum |-> 0, trust_5d_sum |-> 0, total_10d_sum |-> 0,
     chip_score |-> 0, chip_grade |-> "pending", chip_color |-> "pending"]

IdleStrength ==
    chip_df = EmptyTable /\ chip_str = NoStrength /\ strengthPc = "idle"

IdleScan ==
    /\ scanFn = "none" /\ scanArg = 0 /\ scanPos = 0
    /\ pivot = EmptyTable /\ results = <<>> /\ scanPc = "idle"

\* raw = None
RawNone == [kind |-> "none", table |-> EmptyTable]

\* empty_res
empty_res == [foreign_net |-> 0, trust_net |-> 0, total_net |-> 0, days |-> 0]

IdleFetch ==
    /\ reqDays = 0 /\ fetchPc = "idle" /\ attempt = 0 /\ raw = RawNone
    /\ calls = <<>> /\ sleeps = <<>> /\ fetchRes = empty_res

IdleReport ==
    /\ dry_run = FALSE /\ api_key = FALSE
    /\ inventoryFile = [exists |-> FALSE, entries |-> <<>>]
    /\ inventory = <<>> /\ itemPos = 0 /\ reportRows = <<>> /\ apiCalls = <<>>
    /\ reportPc = "idle"

\* the decorated functions, each with the arguments the dashboard calls it with
CachedCalls ==
    { [fn |-> "get_price_data", arg |-> "2330.TW"],
      [fn |-> "get_chip_data", arg |-> "2330.TW"],
      [fn |-> "scan_consecutive_buys", arg |-> "3"] }

\* the single-day scan, which carries no decorator
UncachedCall == [fn |-> "get_tw_chip_top_buys", arg |-> "()"]

NoEntry == [present |-> FALSE, stored |-> 0, value |-> 0]

NoCall == [made |-> FALSE, fn |-> "None", arg |-> "None", contacted |-> FALSE,
           value |-> 0]

IdleCache ==
    /\ now = 0 /\ cache = [k \in CachedCalls |-> NoEntry] /\ feed = 1
    /\ lastRun = NoEntry /\ lastCall = NoCall

IdleInv ==
    /\ invLoader = "None" /\ invFile = [exists |-> FALSE, rows |-> <<>>]
    /\ invMatches = <<>> /\ invPos = 0 /\ invOut = <<>> /\ invPc = "idle"

IdleSignal ==
    /\ signal_df = <<>> /\ signal = "None" /\ signalPc = "idle"

IdleMail ==
    /\ send_email_flag = FALSE /\ app_password = FALSE /\ recipients_raw = <<>>
    /\ recipients = <<>> /\ smtp = <<>> /\ mailRes = "None" /\ mainPc = "idle"

IdleTop ==
    /\ top_df = [kind |-> "none", records |-> {}] /\ top_results = <<>>
    /\ topPos = 0 /\ topPc = "idle"

IdleTs ==
    /\ last_date = 0 /\ pred_days = 0 /\ current = 0 /\ added = 0
    /\ future_dates = <<>> /\ tsPc = "idle"

-----------------------------------------------------------------------------
(* calc_chip_strength *)

\* the number of trailing values of vals on the side dir (1: > 0, -1: < 0)
RECURSIVE RunLength(_, _)
RunLength(vals, dir) ==
    IF vals = <<>> THEN 0
    ELSE LET v == vals[Len(vals)].val
         IN  IF (dir > 0 /\ v > 0) \/ (dir < 0 /\ v < 0)
             THEN 1 + RunLength(SubSeq(vals, 1, Len(vals) - 1), dir)
             ELSE 0

\* _streak with the missing values left in (a missing value reads as 0)
StreakKeepingNa(series) ==
    IF Len(series) = 0 THEN 0
    ELSE LET direction == IF series[Len(series)].val > 0 THEN 1 ELSE -1
         IN  RunLength(series, direction) * direction

\* _streak(series): positive = buying days, negative = selling days
_streak(series) ==
    LET vals == DropNa(series)
    IN  IF Len(vals) = 0 THEN 0
        ELSE LET direction == IF vals[Len(vals)].val > 0 THEN 1 ELSE -1
             IN  RunLength(vals, direction) * direction

StrengthForeignCol(cols) ==
    FirstCol(cols, {c \in NameSet(cols) :
                        HasSub(c, "Foreign") \/ HasSub(c, "waizi")})

StrengthTrustCol(cols) ==
    FirstCol(cols, {c \in NameSet(cols) :
                        HasSub(c, "Trust") \/ HasSub(c, "touxin")})

\* min(max(x, lo), hi)
Clamp(x, lo, hi) == Min(Max(x, lo), hi)

\* the score before the final clamp
RawScore(foreign_streak, trust_streak, foreign_5d, trust_5d) ==
    50 + Clamp(foreign_streak * 4, -20, 20)
       + Clamp(trust_streak * 3, -15, 15)
       + (IF foreign_5d > 0 THEN Min(10, 10)
          ELSE IF foreign_5d < 0 THEN -Min(10, 10) ELSE 0)
       + (IF trust_5d > 0 THEN 5 ELSE IF trust_5d < 0 THEN -5 ELSE 0)

\* score = max(0, min(100, score))
FinalScore(score) == Max(0, Min(100, score))

\* ChipScore with the caps forgotten: every streak day counts
ChipScoreUncapped(foreign_streak, trust_streak, foreign_5d, trust_5d) ==
    50 + foreign_streak * 4 + trust_streak * 3
       + (IF foreign_5d > 0 THEN 10 ELSE IF foreign_5d < 0 THEN -10 ELSE 0)
       + (IF trust_5d > 0 THEN 5 ELSE IF trust_5d < 0 THEN -5 ELSE 0)

\* the chip score: base 50, the four adjustments, capped to 0..100
ChipScore(foreign_streak, trust_streak, foreign_5d, trust_5d) ==
    FinalScore(RawScore(foreign_streak, trust_streak, foreign_5d, trust_5d))

\* grade and colour of a score
ChipGrade(score) ==
    IF score >= 80 THEN <<"jiqiang", "#FF4B4B">>          \* 極強
    ELSE IF score >= 65 THEN <<"pianqiang", "#FF8C00">>   \* 偏強
    ELSE IF score >= 45 THEN <<"zhongxing", "#FFD700">>   \* 中性
    ELSE IF score >= 25 THEN <<"pianruo", "#87CEEB">>     \* 偏弱
    ELSE <<"jiruo", "#4169E1">>                           \* 極弱

\* every cell of the last n rows, summed: chip_df.tail(n).sum().sum()
RECURSIVE SumRows(_, _)
SumRows(rows, cols) ==
    IF rows = <<>> THEN 0
    ELSE SumCells([j \in 1..Len(cols) |-> Head(rows)[cols[j]]])
         + SumRows(Tail(rows), cols)

calc_chip_strength(t) ==
    IF IsEmpty(t)
    THEN [foreign_streak |-> 0, trust_streak |-> 0,
          foreign_5d_sum |-> 0, trust_5d_sum |-> 0, total_10d_sum |-> 0,
          chip_score |-> 0, chip_grade |-> "wuziliao",   \* 無資料
          chip_color |-> "gray"]
    ELSE
    LET foreign_col == StrengthForeignCol(t.cols)
        trust_col == StrengthTrustCol(t.cols)
        foreign_streak ==
            IF foreign_col # "None" THEN _streak(Column(t, foreign_col)) ELSE 0
        trust_streak ==
            IF trust_col # "None" THEN _streak(Column(t, trust_col)) ELSE 0
        foreign_5d ==
            IF foreign_col # "None"
            THEN SumCells(TailN(Column(t, foreign_col), 5)) ELSE 0
        trust_5d ==
            IF trust_col # "None"
            THEN SumCells(TailN(Column(t, trust_col), 5)) ELSE 0
        total_10d == SumRows(TailN(t.rows, 10), t.cols)
        score == ChipScore(foreign_streak, trust_streak, foreign_5d, trust_5d)
        gc == ChipGrade(score)
    IN  [foreign_streak |-> foreign_streak, trust_streak |-> trust_streak,
         \* round(float(x), 1) of lots: tenths of a lot
         foreign_5d_sum |-> RoundHalfEvenDiv(foreign_5d, 100),
         trust_5d_sum |-> RoundHalfEvenDiv(trust_5d, 100),
         total_10d_sum |-> RoundHalfEvenDiv(total_10d, 100),
         chip_score |-> score, chip_grade |-> gc[1], chip_color |-> gc[2]]

-----------------------------------------------------------------------------
(* Specification SpecStrength: get_chip_data's table, then calc_chip_strength *)

\* the column sets the provider's answer may have (sorted, as unstack leaves them)
ChipColumnSets ==
    { <<"Foreign_Investor", "Investment_Trust">>,
      <<"Foreign_Investor">>,
      <<"Investment_Trust">> }

\* get_chip_data unstacks without fill_value: a cell may be missing
ChipCells == {Cell(v) : v \in NetVals} \cup {NaN}

RowsOver(cols, cells) == [NameSet(cols) -> cells]

InitStrength ==
    /\ IdleScan /\ IdleFetch /\ IdleReport /\ IdleCache /\ IdleInv /\ IdleSignal /\ IdleMail /\ IdleTop /\ IdleTs
    /\ chip_df \in {[cols |-> cs, rows |-> <<>>] : cs \in ChipColumnSets}
                   \cup {EmptyTable}
    /\ chip_str = NoStrength
    /\ strengthPc = "input"

\* the provider's answer holds one more trading day
ChipDay ==
    /\ strengthPc = "input"
    /\ chip_df.cols # <<>>
    /\ Len(chip_df.rows) < MaxFreeDays
    /\ \E row \in RowsOver(chip_df.cols, ChipCells) :
           chip_df' = [chip_df EXCEPT !.rows = Append(@, row)]
    /\ UNCHANGED <<chip_str, strengthPc, restStrength>>

\* one more trading day with the same figures as the day before
ChipRepeatDay ==
    /\ strengthPc = "input"
    /\ Len(chip_df.rows) >= MaxFreeDays
    /\ Len(chip_df.rows) < MaxDays
    /\ chip_df' = [chip_df EXCEPT !.rows = Append(@, @[Len(@)])]
    /\ UNCHANGED <<chip_str, strengthPc, restStrength>>

CalcChipStrength ==
    /\ strengthPc = "input"
    /\ chip_str' = calc_chip_strength(chip_df)
    /\ strengthPc' = "done"
    /\ UNCHANGED <<chip_df, restStrength>>

NextStrength == ChipDay \/ ChipRepeatDay \/ CalcChipStrength

SpecStrength == InitStrength /\ [][NextStrength]_vars

-----------------------------------------------------------------------------
(* Claims about calc_chip_strength, checked under SpecStrength *)

\* C2: for every chip table (empty, all-missing, buy or sell streaks of any
\* length) the returned chip_score is an integer with 0 <= chip_score <= 100,
\* and the empty table yields score 0 with the grade "no data" (wuziliao).
C2_ScoreInRange ==
    strengthPc = "done" =>
        /\ chip_str.chip_score \in 0..100
        /\ IsEmpty(chip_df) =>
               chip_str.chip_score = 0 /\ chip_str.chip_grade = "wuziliao"

\* a streak long enough for its adjustment to be capped, in a full-score table
C2_Witness ==
    /\ strengthPc = "done"
    /\ chip_str.foreign_streak >= 6
    /\ chip_str.trust_streak >= 6
    /\ chip_str.chip_score = 100

\* the non-missing values of the series calc_chip_strength reads for a column
\* (no value when the table has no such column)
SeriesVals(col) ==
    IF col = "None" \/ IsEmpty(chip_df) THEN <<>>
    ELSE DropNa(Column(chip_df, col))

\* the last k values of vals are all on the side sgn, and k is maximal
MaximalRun(vals, k, sgn) ==
    /\ k \in 1..Len(vals)
    /\ \A i \in (Len(vals) - k + 1)..Len(vals) : vals[i].val * sgn > 0
    /\ k < Len(vals) => ~(vals[Len(vals) - k].val * sgn > 0)

SignedStreakOf(s, vals) ==
    /\ (vals # <<>> /\ vals[Len(vals)].val > 0) => s > 0 /\ MaximalRun(vals, s, 1)
    /\ (vals # <<>> /\ vals[Len(vals)].val < 0) => s < 0 /\ MaximalRun(vals, -s, -1)
    /\ s = 0 <=> (vals = <<>> \/ vals[Len(vals)].val = 0)

\* C3: foreign_streak / trust_streak is +k when the latest non-missing value
\* is > 0 and exactly the last k non-missing values are > 0, -k when the
\* latest is < 0 and exactly the last k are < 0, and 0 exactly when the series
\* has no non-missing value or its latest value is 0.
C3_SignedStreak ==
    strengthPc = "done" =>
        /\ SignedStreakOf(chip_str.foreign_streak,
                          SeriesVals(StrengthForeignCol(chip_df.cols)))
        /\ SignedStreakOf(chip_str.trust_streak,
                          SeriesVals(StrengthTrustCol(chip_df.cols)))

\* a selling streak and a buying streak that both run across a missing day
C3_Witness ==
    /\ strengthPc = "done"
    /\ chip_str.foreign_streak <= -2
    /\ chip_str.trust_streak >= 2
    /\ "Foreign_Investor" \in NameSet(chip_df.cols)
    /\ \E i, j \in 1..Len(chip_df.rows) :
           /\ i < j /\ j < Len(chip_df.rows)
           /\ ~chip_df.rows[i]["Foreign_Investor"].na
           /\ chip_df.rows[j]["Foreign_Investor"].na

-----------------------------------------------------------------------------
(* The scans: scan_consecutive_buys and scan_chip_concentration *)

\* SCAN_TARGETS, cut down to two of its stock ids
SCAN_TARGETS == <<"2330", "0050">>

\* _resolve_columns: the foreign column, the trust column, the dealer columns
ResolveForeign(cols) ==
    FirstCol(cols, {c \in NameSet(cols) : HasSub(c, "Foreign")})

ResolveTrust(cols) ==
    FirstCol(cols, {c \in NameSet(cols) :
                        HasSub(c, "Trust") \/ HasSub(c, "Investment")})

ResolveDealers(cols) == SelectSeq(cols, LAMBDA c : HasSub(c, "Dealer"))

\* the plain numbers of a column (a scan's pivot is filled with 0, never NaN)
Values(t, c) == [i \in 1..Len(t.rows) |-> t.rows[i][c].val]

\* for v in reversed(vals): if v > 0: streak += 1; accum += v; else: break
RECURSIVE BuyRun(_)
BuyRun(vals) ==
    IF vals = <<>> THEN [streak |-> 0, accum |-> 0]
    ELSE LET v == vals[Len(vals)]
         IN  IF v > 0
             THEN LET rest == BuyRun(SubSeq(vals, 1, Len(vals) - 1))
                  IN  [streak |-> rest.streak + 1, accum |-> rest.accum + v]
             ELSE [streak |-> 0, accum |-> 0]

\* sum over the columns cs of the row r
RowSum(r, cs) == SumSeq([j \in 1..Len(cs) |-> r[cs[j]].val])

\* the tag of a kept row
BuyTag(foreign_streak, trust_streak, n) ==
    IF foreign_streak >= n /\ trust_streak >= n THEN "tuyang-tongbu-lianmai"
    ELSE IF foreign_streak >= n THEN "waizi-lianmai"
    ELSE "touxin-lianmai"

\* one pass of scan_consecutive_buys' loop: the rows it appends for a target
\* (none, or one)
ConsecutiveRows(stock_id, t, n) ==
    IF IsEmpty(t) \/ Len(t.rows) < n THEN <<>>
    ELSE
    LET foreign_col == ResolveForeign(t.cols)
        trust_col == ResolveTrust(t.cols)
        dealer_cols == ResolveDealers(t.cols)
        f == IF foreign_col # "None" THEN BuyRun(Values(t, foreign_col))
             ELSE [streak |-> 0, accum |-> 0]
        tr == IF trust_col # "None" THEN BuyRun(Values(t, trust_col))
              ELSE [streak |-> 0, accum |-> 0]
        last == t.rows[Len(t.rows)]
        dealer_latest == RowSum(last, dealer_cols)
        foreign_latest == IF foreign_col # "None" THEN last[foreign_col].val ELSE 0
        trust_latest == IF trust_col # "None" THEN last[trust_col].val ELSE 0
        total_latest == foreign_latest + trust_latest + dealer_latest
    IN  IF f.streak >= n \/ tr.streak >= n
        THEN << [Stock |-> stock_id,
                 foreign_days |-> f.streak,
                 foreign_accum |-> TruncDiv(f.accum, 1000),
                 trust_days |-> tr.streak,
                 trust_accum |-> TruncDiv(tr.accum, 1000),
                 today_total |-> TruncDiv(total_latest, 1000),
                 max_source |-> IF f.streak >= tr.streak THEN "waizi" ELSE "touxin",
                 tag |-> BuyTag(f.streak, tr.streak, n)] >>
        ELSE <<>>

\* the level of a concentration num / den (den > 0), in percent
ConcentrationLevel(num, den) ==
    IF num > 200 * den THEN "jidu-jizhong"            \* > 200
    ELSE IF num > 100 * den THEN "gaodu-jizhong"      \* > 100
    ELSE IF num > 50 * den THEN "zhongdu-jizhong"     \* > 50
    ELSE IF num > 0 THEN "qingdu-jizhong"             \* > 0
    ELSE "fensan-maichao"

\* sum over the rows of the column c
ColSum(rows, c) == SumSeq([i \in 1..Len(rows) |-> rows[i][c].val])

\* the concentration of a tail as a fraction num / den, den > 0:
\* total_sum / avg_daily * 100 with avg_daily the mean of |daily total|,
\* or 1 (lot) when that mean is 0
ConcentrationOf(total_sum, tail, cols) ==
    LET daily_abs == SumSeq([i \in 1..Len(tail) |-> Abs(RowSum(tail[i], cols))])
    IN  IF daily_abs # 0
        THEN [num |-> 100 * Len(tail) * total_sum, den |-> daily_abs]
        ELSE [num |-> total_sum, den |-> 10]

\* one pass of scan_chip_concentration's loop
ConcentrationRows(stock_id, t, lookback_days) ==
    IF IsEmpty(t) \/ Len(t.rows) < 3 THEN <<>>
    ELSE
    LET foreign_col == ResolveForeign(t.cols)
        trust_col == ResolveTrust(t.cols)
        dealer_cols == ResolveDealers(t.cols)
        tail == TailN(t.rows, lookback_days)
        foreign_sum == IF foreign_col # "None" THEN ColSum(tail, foreign_col) ELSE 0
        trust_sum == IF trust_col # "None" THEN ColSum(tail, trust_col) ELSE 0
        dealer_sum ==
            SumSeq([j \in 1..Len(dealer_cols) |-> ColSum(tail, dealer_cols[j])])
        total_sum == foreign_sum + trust_sum + dealer_sum
        c == ConcentrationOf(total_sum, tail, t.cols)
    IN  << [Stock |-> stock_id,
            foreign_net |-> TruncDiv(foreign_sum, 1000),
            trust_net |-> TruncDiv(trust_sum, 1000),
            total_net |-> TruncDiv(total_sum, 1000),
            \* round(concentration, 1), in tenths of a percent
            concentration |-> RoundHalfEvenDiv(10 * c.num, c.den),
            level |-> ConcentrationLevel(c.num, c.den)] >>

\* the key the returned table is sorted by, descending
SortKey(fn, row) ==
    IF fn = "consecutive" THEN row.foreign_days + row.trust_days
    ELSE IF fn = "single_day" THEN row.Total
    ELSE row.concentration

\* sort_values(key, ascending=False): the rows in an order of non-increasing
\* key; rows with equal keys may come out in either order
SortedOrders(fn, rows) ==
    LET n == Len(rows)
        perms == {p \in [1..n -> 1..n] : \A i, j \in 1..n : i # j => p[i] # p[j]}
    IN  { [i \in 1..n |-> rows[p[i]]] : p \in
            {q \in perms : \A i \in 1..(n - 1) :
                SortKey(fn, rows[q[i]]) >= SortKey(fn, rows[q[i + 1]])} }

-----------------------------------------------------------------------------
(* Specification SpecScan: one run of a scan over SCAN_TARGETS *)

\* the column sets of a provider answer (sorted, as unstack leaves them)
ScanColumnSets ==
    { <<"Foreign_Investor", "Investment_Trust">>,
      <<"Foreign_Dealer_Self", "Foreign_Investor">> }

\* the days asked for: consecutive_days, lookback_days
ConsecutiveDaysArgs == {2, 3}
LookbackDaysArgs == {3}

\* the rows over cols: for each column one of the figures of its institution
RECURSIVE ScanRowsOver(_)
ScanRowsOver(cols) ==
    IF Len(cols) = 1 THEN {Head(cols) :> Cell(v) : v \in ScanNetVals(Head(cols))}
    ELSE {(Head(cols) :> Cell(v)) @@ r :
            v \in ScanNetVals(Head(cols)), r \in ScanRowsOver(Tail(cols))}

\* every day of the history has the same figures
SameFigures(rows) == \A i \in 1..Len(rows) : rows[i] = rows[1]

InitScan ==
    /\ IdleStrength /\ IdleFetch /\ IdleReport /\ IdleCache /\ IdleInv /\ IdleSignal /\ IdleMail /\ IdleTop /\ IdleTs
    /\ \/ scanFn = "consecutive" /\ scanArg \in ConsecutiveDaysArgs
       \/ scanFn = "concentration" /\ scanArg \in LookbackDaysArgs
    /\ scanPos = 0
    /\ pivot = EmptyTable
    /\ results = <<>>
    /\ scanPc = "loop"

\* the loop asks the provider for the next target's history
FetchChipHistory ==
    /\ scanPc = "loop"
    /\ scanPos < Len(SCAN_TARGETS)
    /\ pivot' = EmptyTable
    /\ scanPc' = "history"
    /\ UNCHANGED <<scanFn, scanArg, scanPos, results, restScan>>

\* the answer holds one more trading day, with new figures (the figures of a
\* history change at most once)
HistoryNewFigures ==
    /\ scanPc = "history"
    /\ Len(pivot.rows) < MaxScanDays
    /\ SameFigures(pivot.rows)
    /\ \E cs \in ScanColumnSets :
          /\ pivot.rows # <<>> => cs = pivot.cols
          /\ \E row \in ScanRowsOver(cs) :
                /\ pivot.rows # <<>> => row # pivot.rows[Len(pivot.rows)]
                /\ pivot' = [cols |-> cs, rows |-> Append(pivot.rows, row)]
    /\ UNCHANGED <<scanFn, scanArg, scanPos, results, scanPc, restScan>>

\* the answer holds one more trading day, with the figures of the day before
HistorySameFigures ==
    /\ scanPc = "history"
    /\ pivot.rows # <<>>
    /\ Len(pivot.rows) < MaxScanDays
    /\ pivot' = [pivot EXCEPT !.rows = Append(@, @[Len(@)])]
    /\ UNCHANGED <<scanFn, scanArg, scanPos, results, scanPc, restScan>>

\* the loop body for the current target (an exception or an empty answer of the
\* provider is the empty pivot)
ScanTarget ==
    /\ scanPc = "history"
    /\ results' = results \o
          (IF scanFn = "consecutive"
           THEN ConsecutiveRows(SCAN_TARGETS[scanPos + 1], pivot, scanArg)
           ELSE ConcentrationRows(SCAN_TARGETS[scanPos + 1], pivot, scanArg))
    /\ scanPos' = scanPos + 1
    /\ scanPc' = "loop"
    /\ UNCHANGED <<scanFn, scanArg, pivot, restScan>>

\* after the loop: the results, sorted, are returned
ScanReturn ==
    /\ scanPc = "loop"
    /\ scanPos = Len(SCAN_TARGETS)
    /\ results' \in SortedOrders(scanFn, results)
    /\ scanPc' = "done"
    /\ UNCHANGED <<scanFn, scanArg, scanPos, pivot, restScan>>

NextScan ==
    \/ FetchChipHistory
    \/ HistoryNewFigures
    \/ HistorySameFigures
    \/ ScanTarget
    \/ ScanReturn

SpecScan == InitScan /\ [][NextScan]_vars

-----------------------------------------------------------------------------
(* Claims about the scans, checked under SpecScan *)

\* the loop has gone through a target, whose history pivot still holds
Scanned == scanPc \in {"loop", "done"} /\ scanPos >= 1

LastTarget == SCAN_TARGETS[scanPos]

RowsOf(stock_id) == SelectSeq(results, LAMBDA r : r.Stock = stock_id)

\* the daily net buys of the institution named c (none when the provider's
\* answer has no such institution)
InstitutionVals(c) ==
    IF c \in NameSet(pivot.cols) THEN Values(pivot, c) ELSE <<>>

PositiveOnLast(vals, n) ==
    /\ Len(vals) >= n
    /\ \A i \in (Len(vals) - n + 1)..Len(vals) : vals[i] > 0

\* the length of the maximal run of strictly positive days ending at the latest
MaxBuyRun(vals) ==
    CHOOSE k \in 0..Len(vals) :
        /\ \A i \in (Len(vals) - k + 1)..Len(vals) : vals[i] > 0
        /\ k < Len(vals) => vals[Len(vals) - k] <= 0

\* the net buy of the last k days, in lots as the table reports it
LotsOverLast(vals, k) == TruncDiv(SumSeq(TailN(vals, k)), 1000)

ConsecutiveBuysClaim ==
    LET n == scanArg
        fi == InstitutionVals("Foreign_Investor")
        it == InstitutionVals("Investment_Trust")
        rows == RowsOf(LastTarget)
    IN  /\ Len(rows) <= 1
        /\ Len(rows) = 1 <=>
              /\ Len(pivot.rows) >= n
              /\ PositiveOnLast(fi, n) \/ PositiveOnLast(it, n)
        /\ Len(rows) = 1 =>
              /\ rows[1].foreign_days = MaxBuyRun(fi)
              /\ rows[1].foreign_accum = LotsOverLast(fi, MaxBuyRun(fi))
              /\ rows[1].trust_days = MaxBuyRun(it)
              /\ rows[1].trust_accum = LotsOverLast(it, MaxBuyRun(it))

\* C1: scan_consecutive_buys(N): a target is in the result iff its history has
\* at least N trading days and the foreign investors' or the investment
\* trust's net buy is > 0 on each of the N most recent days; each reported
\* streak is the maximal run of > 0 days ending at the latest day, each
\* reported accumulation the sum over exactly that run.
C1_ConsecutiveBuys ==
    (scanFn = "consecutive" /\ Scanned) => ConsecutiveBuysClaim

\* the same for the answers that have no Foreign_Dealer_Self column, where the
\* first column named Foreign is the foreign investors'
C1_WithoutForeignDealer ==
    (/\ scanFn = "consecutive" /\ Scanned
     /\ "Foreign_Dealer_Self" \notin NameSet(pivot.cols)) => ConsecutiveBuysClaim

\* foreign investors bought on each of the last N days and the target is
\* missing from the result
C1_MissedBuyer ==
    /\ scanFn = "consecutive" /\ Scanned
    /\ PositiveOnLast(InstitutionVals("Foreign_Investor"), scanArg)
    /\ RowsOf(LastTarget) = <<>>

\* the net total of every institution over the rows, in shares
InstitutionTotal(rows, cols) ==
    SumSeq([i \in 1..Len(rows) |-> RowSum(rows[i], cols)])

ConcentrationClaim ==
    LET rows == RowsOf(LastTarget)
        tail == TailN(pivot.rows, scanArg)
        total == InstitutionTotal(tail, pivot.cols)
        daily_abs ==
            SumSeq([i \in 1..Len(tail) |-> Abs(RowSum(tail[i], pivot.cols))])
        \* C = 100 * total / (daily_abs / Len(tail)), the mean read as 1 lot
        \* (1000 shares) when it is 0
        num == IF daily_abs = 0 THEN total ELSE 100 * Len(tail) * total
        den == IF daily_abs = 0 THEN 10 ELSE daily_abs
    IN  Len(pivot.rows) >= 3 =>
            /\ Len(rows) = 1
            /\ den # 0
            /\ rows[1].concentration = RoundHalfEvenDiv(10 * num, den)
            /\ rows[1].level =
                  (IF num > 200 * den THEN "jidu-jizhong"
                   ELSE IF num > 100 * den THEN "gaodu-jizhong"
                   ELSE IF num > 50 * den THEN "zhongdu-jizhong"
                   ELSE IF num > 0 THEN "qingdu-jizhong"
                   ELSE "fensan-maichao")

SortedByConcentration ==
    scanPc = "done" =>
        \A i \in 1..(Len(results) - 1) :
            results[i].concentration >= results[i + 1].concentration

\* C4: scan_chip_concentration: for each target with at least 3 days of
\* history C = 100 * (institutional net total over the last lookback_days
\* rows) / (mean over those rows of |daily sum of all institution columns|,
\* 1 when that mean is 0); the level is the one of the five bands C falls in;
\* the denominator is never 0; the result is sorted by C descending.
C4_Concentration ==
    (scanFn = "concentration" /\ Scanned) =>
        ConcentrationClaim /\ SortedByConcentration

\* the same for the answers that have no Foreign_Dealer_Self column
C4_WithoutForeignDealer ==
    (/\ scanFn = "concentration" /\ Scanned
     /\ "Foreign_Dealer_Self" \notin NameSet(pivot.cols)) =>
        ConcentrationClaim /\ SortedByConcentration

\* the column the scan takes for the foreign investors' is among the columns it
\* takes for the dealers'
ForeignAlsoDealer(cols) ==
    \E j \in 1..Len(ResolveDealers(cols)) :
        ResolveDealers(cols)[j] = ResolveForeign(cols)

EachColumnOnceClaim ==
    LET rows == RowsOf(LastTarget)
        last == pivot.rows[Len(pivot.rows)]
        tail == TailN(pivot.rows, scanArg)
    IN  /\ pivot.rows # <<>> => ~ForeignAlsoDealer(pivot.cols)
        /\ (scanFn = "consecutive" /\ Len(rows) = 1) =>
               rows[1].today_total = TruncDiv(RowSum(last, pivot.cols), 1000)
        /\ (scanFn = "concentration" /\ Len(rows) = 1) =>
               rows[1].total_net =
                   TruncDiv(InstitutionTotal(tail, pivot.cols), 1000)

\* C18: the three-institution totals count every institution column exactly
\* once: in scan_consecutive_buys (today's total) and scan_chip_concentration
\* (the institutions' total), for any set of provider column names the column
\* chosen as the foreign column is not also one of the dealer columns, and
\* the total is the sum over all institution columns.
C18_EachColumnOnce ==
    Scanned => EachColumnOnceClaim

\* the same for the answers that have no Foreign_Dealer_Self column
C18_WithoutForeignDealer ==
    (Scanned /\ "Foreign_Dealer_Self" \notin NameSet(pivot.cols)) =>
        EachColumnOnceClaim

\* a reported total that holds the foreign dealers' figure twice and leaves
\* the foreign investors' out
C18_CountedTwice ==
    /\ Scanned
    /\ pivot.rows # <<>>
    /\ ForeignAlsoDealer(pivot.cols)
    /\ Len(RowsOf(LastTarget)) = 1
    /\ scanFn = "concentration"
    /\ LET tail == TailN(pivot.rows, scanArg)
       IN  /\ RowsOf(LastTarget)[1].total_net =
                 TruncDiv(2 * ColSum(tail, "Foreign_Dealer_Self"), 1000)
           /\ ColSum(tail, "Foreign_Investor") # 0
           /\ ColSum(tail, "Foreign_Dealer_Self") # 0

-----------------------------------------------------------------------------
(* fetch_chip_summary: the monthly report's chip summary, with retries *)

\* a loop that goes round once more
AttemptsOffByOne == 5 + 1

\* for i in range(1, 6): the number of attempts
Attempts == 5

\* the wait that forgets to grow
BackoffFlat(i) == 2

\* time.sleep(i * 2)
Backoff(i) == i * 2

\* raw is not None and not raw.empty
NonEmptyAnswer(ans) == ans.kind \in {"table", "malformed", "nokeys"}

\* the columns the summary adds up
SummaryForeignCols(cols) == SelectSeq(cols, LAMBDA c : HasSub(c, "Foreign"))

SummaryTrustCols(cols) ==
    SelectSeq(cols, LAMBDA c : HasSub(c, "Investment") \/ HasSub(c, "Trust"))

SummaryDealerCols(cols) ==
    SelectSeq(cols, LAMBDA c : HasSub(c, "Dealer") /\ ~HasSub(c, "Foreign"))

\* the tail that keeps every day there is
TailKeepingAll(rows, days) == rows

\* pivot.sort_index().tail(days)
SummaryTail(rows, days) == TailN(rows, days)

\* the code after the retry loop: the dict returned for the final raw
Summary(r, days) ==
    IF r.kind \in {"none", "empty"} THEN empty_res
    ELSE IF r.kind = "malformed" THEN empty_res     \* the parse raises
    ELSE IF r.kind = "nokeys" \/ IsEmpty(r.table) THEN empty_res  \* pivot.empty
    ELSE
    LET tail == SummaryTail(r.table.rows, days)
        net(cs) == SumSeq([j \in 1..Len(cs) |-> ColSum(tail, cs[j])])
        foreign_net == net(SummaryForeignCols(r.table.cols))
        trust_net == net(SummaryTrustCols(r.table.cols))
        dealer_net == net(SummaryDealerCols(r.table.cols))
    IN  [foreign_net |-> TruncDiv(foreign_net, 1000),
         trust_net |-> TruncDiv(trust_net, 1000),
         total_net |-> TruncDiv(foreign_net + trust_net + dealer_net, 1000),
         days |-> Len(tail)]

-----------------------------------------------------------------------------
(* Specification SpecFetch: one call of fetch_chip_summary *)

\* the argument days
MaxReqDays == 2

\* the trading days a provider answer may hold (every day with the same figures)
MaxTradingDays == 3

FetchColumnSets ==
    { <<"Foreign_Investor", "Investment_Trust">>, ProviderNames }

\* what one call of dl.taiwan_stock_institutional_investors may do: raise,
\* return None, an empty table, a non-empty table without the columns the
\* parse needs, a non-empty table whose dates and names are all missing ...
FailedAnswers ==
    {[kind |-> k, table |-> EmptyTable] :
        k \in {"raise", "none", "empty", "malformed", "nokeys"}}

\* ... or a table over one of the column sets
TableAnswers(columnSets) ==
    UNION {{[kind |-> "table",
             table |-> [cols |-> cs, rows |-> [i \in 1..d |-> row]]] :
                d \in 1..MaxTradingDays, row \in ScanRowsOver(cs)} :
           cs \in columnSets}

ProviderAnswers == FailedAnswers \cup TableAnswers(FetchColumnSets)

\* the answers with the tables of two institutions only
PlainAnswers ==
    FailedAnswers \cup TableAnswers({<<"Foreign_Investor", "Investment_Trust">>})

InitFetch ==
    /\ IdleStrength /\ IdleScan /\ IdleReport /\ IdleCache /\ IdleInv /\ IdleSignal /\ IdleMail /\ IdleTop /\ IdleTs
    /\ reqDays \in 1..MaxReqDays
    /\ fetchPc = "new"
    /\ attempt = 0
    /\ raw = RawNone
    /\ calls = <<>>
    /\ sleeps = <<>>
    /\ fetchRes = empty_res

\* dl = DataLoader(): before the try; an exception here leaves the function
ConstructLoader ==
    /\ fetchPc = "new"
    /\ \/ fetchPc' = "try" /\ attempt' = 1
       \/ fetchPc' = "raised" /\ attempt' = attempt
    /\ UNCHANGED <<reqDays, raw, calls, sleeps, fetchRes, restFetch>>

\* one pass of the loop up to the sleep: the call, and the break on data
CallProvider(answers) ==
    /\ fetchPc = "try"
    /\ \E ans \in answers :
          /\ calls' = Append(calls, ans.kind)
          /\ raw' = IF ans.kind = "raise" THEN raw ELSE ans
          /\ fetchPc' = IF NonEmptyAnswer(ans) THEN "after" ELSE "sleep"
    /\ UNCHANGED <<reqDays, attempt, sleeps, fetchRes, restFetch>>

\* time.sleep(i * 2), then the next pass or the end of the loop
Sleep ==
    /\ fetchPc = "sleep"
    /\ sleeps' = Append(sleeps, Backoff(attempt))
    /\ IF attempt < Attempts
       THEN attempt' = attempt + 1 /\ fetchPc' = "try"
       ELSE attempt' = attempt /\ fetchPc' = "after"
    /\ UNCHANGED <<reqDays, raw, calls, fetchRes, restFetch>>

\* the code after the loop, up to the return
Summarise ==
    /\ fetchPc = "after"
    /\ fetchRes' = Summary(raw, reqDays)
    /\ fetchPc' = "done"
    /\ UNCHANGED <<reqDays, attempt, raw, calls, sleeps, restFetch>>

NextFetch ==
    ConstructLoader \/ CallProvider(ProviderAnswers) \/ Sleep \/ Summarise

SpecFetch == InitFetch /\ [][NextFetch]_vars

\* The same call with the provider's tables kept to two institutions, and the
\* interpreter running the function on: no step is put off for ever
NextFetchPlain ==
    ConstructLoader \/ CallProvider(PlainAnswers) \/ Sleep \/ Summarise

FairSpecFetch ==
    InitFetch /\ [][NextFetchPlain]_vars /\ WF_vars(NextFetchPlain)

-----------------------------------------------------------------------------
(* Claims about fetch_chip_summary, checked under SpecFetch / FairSpecFetch *)

FetchOver == fetchPc \in {"done", "raised"}

\* the answers that are a non-empty table
DataKinds == {"table", "malformed", "nokeys"}

AtMostFiveCalls ==
    /\ Len(calls) <= 5
    /\ \A k \in 1..(Len(calls) - 1) : calls[k] \notin DataKinds

\* a step makes at most one call, and none once a call has returned data
OneCallAtATime ==
    /\ Len(calls') <= Len(calls) + 1
    /\ (calls # <<>> /\ calls[Len(calls)] \in DataKinds) => calls' = calls

\* C5: fetch_chip_summary makes at most 5 calls to the provider, one after
\* another, none after the first call that returns a non-empty table, and it
\* terminates whatever the provider does.
C5_BoundedRetries ==
    /\ []AtMostFiveCalls
    /\ [][OneCallAtATime]_vars
    /\ <>FetchOver

\* four failed calls of every kind, then data on the fifth
C5_Witness ==
    /\ fetchPc = "done"
    /\ Len(calls) = 5
    /\ {calls[k] : k \in 1..4} = {"raise", "none", "empty"}
    /\ calls[5] = "table"

\* C6: after attempt i (1..5) that raises or returns an empty / None result
\* the function waits 2 * i seconds (2, 4, 6, 8, 10), and it does not wait
\* after an attempt that returns a non-empty table.
C6_ProgressiveBackoff ==
    /\ Len(sleeps) <= Len(calls)
    /\ \A i \in 1..Len(sleeps) : sleeps[i] = 2 * i /\ calls[i] \notin DataKinds
    /\ \A i \in 1..Len(calls) :
          (calls[i] \notin DataKinds /\ (i < Len(calls) \/ fetchPc \in {"after", "done"}))
              => Len(sleeps) >= i
    /\ \A i \in 1..Len(calls) : calls[i] \in DataKinds => Len(sleeps) < i

\* every attempt failed: the five waits
C6_Witness ==
    /\ fetchPc = "done"
    /\ sleeps = <<2, 4, 6, 8, 10>>
    /\ calls[5] = "raise"

\* C7: whatever the provider does (constructor or call raising, None, empty
\* table, malformed columns) fetch_chip_summary propagates no exception and
\* returns a dict with exactly the keys foreign_net, trust_net, total_net, days.
C7_NoExceptionEscapes ==
    /\ fetchPc # "raised"
    /\ fetchPc = "done" =>
          DOMAIN fetchRes = {"foreign_net", "trust_net", "total_net", "days"}

\* the same once the DataLoader has been constructed
C7_AfterConstruction ==
    /\ fetchPc = "raised" => calls = <<>>
    /\ fetchPc = "done" =>
          DOMAIN fetchRes = {"foreign_net", "trust_net", "total_net", "days"}

\* the trading days of the table the summary was made from
DaysObtained ==
    IF raw.kind = "table" THEN Len(raw.table.rows) ELSE 0

\* C8: fetch_chip_summary returns all zeros when all 5 attempts raise or
\* return empty, or when parsing fails; on success days is the number of
\* trading days summed, 1 <= days <= the days asked for; so days = 0 exactly
\* when no data was obtained.
C8_DaysCount ==
    fetchPc = "done" =>
        /\ DaysObtained = 0 => fetchRes = empty_res
        /\ DaysObtained > 0 =>
              /\ fetchRes.days = Min(DaysObtained, reqDays)
              /\ 1 <= fetchRes.days /\ fetchRes.days <= reqDays
        /\ fetchRes.days = 0 <=> DaysObtained = 0
        /\ (Len(calls) = 5 /\ calls[5] \notin DataKinds) => fetchRes = empty_res

\* more trading days came back than were asked for
C8_Witness ==
    /\ fetchPc = "done"
    /\ DaysObtained > reqDays
    /\ fetchRes.days = reqDays
    /\ fetchRes.total_net # 0

-----------------------------------------------------------------------------
(* build_report, as main runs it *)

\* BENCHMARK
BENCHMARK == "^TWII"

\* no fallback at all
NoInventory == <<>>

\* the holding build_report falls back on (prices in cents)
DefaultInventory ==
    << [code |-> "00919", symbol |-> "00919.TW", shares |-> 75000,
        avg_price |-> 2125] >>

\* the chip summary and the dividend yield a dry run puts in
DryRunChip == [foreign_net |-> 1200, trust_net |-> 800, total_net |-> 2500, days |-> 20]
DryRunYield == "5.20%"

\* a request to an external service
Request(api, arg) == [api |-> api, arg |-> arg]

\* what fetch_chip_summary hands back to build_report: a summary, or the
\* exception of its DataLoader() when that raises
ChipOutcomes ==
    { [raised |-> FALSE, chip |-> empty_res],
      [raised |-> FALSE,
       chip |-> [foreign_net |-> 3, trust_net |-> 1, total_net |-> 4, days |-> 20]],
      [raised |-> TRUE, chip |-> empty_res] }

-----------------------------------------------------------------------------
(* Specification SpecReport: one run of main up to the saved report *)

\* the holdings inventory.md may list
InventoryEntries ==
    { [code |-> "2330", symbol |-> "2330.TW", shares |-> 1000, avg_price |-> 60000],
      [code |-> "0056", symbol |-> "0056.TW", shares |-> 2000, avg_price |-> 3500] }

\* the longest inventory
MaxHoldings == 2

InventoryFiles ==
    { [exists |-> FALSE, entries |-> <<>>] }
    \cup
    { [exists |-> TRUE, entries |-> es] :
        es \in UNION {[1..n -> InventoryEntries] : n \in 0..MaxHoldings} }

InitReport ==
    /\ IdleStrength /\ IdleScan /\ IdleFetch /\ IdleCache /\ IdleInv /\ IdleSignal /\ IdleMail /\ IdleTop /\ IdleTs
    /\ dry_run \in BOOLEAN
    /\ api_key \in BOOLEAN
    /\ inventoryFile \in InventoryFiles
    /\ inventory = <<>>
    /\ itemPos = 0
    /\ reportRows = <<>>
    /\ apiCalls = <<>>
    /\ reportPc = "start"

\* step 0: load_inventory_for_report, and the default list when it is empty
LoadInventory ==
    /\ reportPc = "start"
    /\ inventory' =
          (LET loaded == IF inventoryFile.exists THEN inventoryFile.entries ELSE <<>>
           IN  IF loaded = <<>> THEN DefaultInventory ELSE loaded)
    /\ reportPc' = "benchmark"
    /\ UNCHANGED <<dry_run, api_key, inventoryFile, itemPos, reportRows, apiCalls,
                   restReport>>

\* step 1: fetch_price_data(BENCHMARK), a price download
FetchBenchmark ==
    /\ reportPc = "benchmark"
    /\ apiCalls' = Append(apiCalls, Request("price", BENCHMARK))
    /\ reportPc' = "items"
    /\ UNCHANGED <<dry_run, api_key, inventoryFile, inventory, itemPos, reportRows,
                   restReport>>

\* step 2, one holding: its prices, then its dividend yield and chip summary,
\* or the dry run's fixed figures
ReportItem ==
    /\ reportPc = "items"
    /\ itemPos < Len(inventory)
    /\ LET item == inventory[itemPos + 1]
           sym == item.symbol
       IN  IF dry_run
           THEN /\ apiCalls' = Append(apiCalls, Request("price", sym))
                /\ reportRows' = Append(reportRows, [symbol |-> sym, shares |-> item.shares,
                                         avg_price |-> item.avg_price,
                                         div_yield |-> DryRunYield, chip |-> DryRunChip])
                /\ itemPos' = itemPos + 1
                /\ reportPc' = reportPc
           ELSE \E out \in ChipOutcomes, dy \in {"N/A", "4.10%"} :
                /\ apiCalls' = apiCalls \o
                      << Request("price", sym), Request("dividend", sym),
                         Request("chip", sym) >>
                /\ IF out.raised
                   THEN reportRows' = reportRows /\ itemPos' = itemPos /\ reportPc' = "crashed"
                   ELSE /\ reportRows' = Append(reportRows, [symbol |-> sym,
                                                 shares |-> item.shares,
                                                 avg_price |-> item.avg_price,
                                                 div_yield |-> dy, chip |-> out.chip])
                        /\ itemPos' = itemPos + 1
                        /\ reportPc' = reportPc
    /\ UNCHANGED <<dry_run, api_key, inventoryFile, inventory, restReport>>

\* step 3: the AI outlook: a fixed text in a dry run, no request without a key
AIOutlook ==
    /\ reportPc = "items"
    /\ itemPos = Len(inventory)
    /\ apiCalls' = IF ~dry_run /\ api_key
                   THEN Append(apiCalls, Request("ai", "gemini-2.5-flash"))
                   ELSE apiCalls
    /\ reportPc' = "weather"
    /\ UNCHANGED <<dry_run, api_key, inventoryFile, inventory, itemPos, reportRows,
                   restReport>>

\* step 4: _get_yilan_weather()
Weather ==
    /\ reportPc = "weather"
    /\ apiCalls' = Append(apiCalls, Request("weather", "wttr.in"))
    /\ reportPc' = "render"
    /\ UNCHANGED <<dry_run, api_key, inventoryFile, inventory, itemPos, reportRows,
                   restReport>>

\* steps 5 to 7: the HTML and the Markdown are rendered and saved
SaveReport ==
    /\ reportPc = "render"
    /\ reportPc' = "saved"
    /\ UNCHANGED <<dry_run, api_key, inventoryFile, inventory, itemPos, reportRows,
                   apiCalls, restReport>>

NextReport ==
    \/ LoadInventory
    \/ FetchBenchmark
    \/ ReportItem
    \/ AIOutlook
    \/ Weather
    \/ SaveReport

SpecReport == InitReport /\ [][NextReport]_vars

-----------------------------------------------------------------------------
(* Claims about build_report, checked under SpecReport *)

\* C9: in --dry-run mode build_report calls no external API: no price
\* download, dividend lookup, institutional-investor query, generative-AI
\* request or weather request is issued during the run.
C9_DryRunCallsNoApi ==
    dry_run => apiCalls = <<>>

\* what a dry run does leave out: the dividend, chip and AI requests
C9_DryRunSkips ==
    dry_run =>
        \A i \in 1..Len(apiCalls) : apiCalls[i].api \in {"price", "weather"}

\* the rows of the report, holding by holding
RowHoldings ==
    [i \in 1..Len(reportRows) |->
        [symbol |-> reportRows[i].symbol, shares |-> reportRows[i].shares,
         avg_price |-> reportRows[i].avg_price]]

\* the entries of inventory.md, holding by holding
FileHoldings ==
    [i \in 1..Len(inventoryFile.entries) |->
        [symbol |-> inventoryFile.entries[i].symbol,
         shares |-> inventoryFile.entries[i].shares,
         avg_price |-> inventoryFile.entries[i].avg_price]]

\* C17: build_report never produces a report with zero holdings: when the
\* inventory file is missing or yields no entry it uses the default single
\* holding (00919.TW, 75,000 shares, average cost 21.25), and the report has
\* exactly one row per inventory entry, in inventory order.
C17_NeverZeroHoldings ==
    reportPc = "saved" =>
        /\ Len(reportRows) >= 1
        /\ IF ~inventoryFile.exists \/ inventoryFile.entries = <<>>
           THEN RowHoldings =
                   << [symbol |-> "00919.TW", shares |-> 75000, avg_price |-> 2125] >>
           ELSE RowHoldings = FileHoldings

\* C17 happens: a report was saved although inventory.md lists nothing
C17_Witness ==
    /\ reportPc = "saved"
    /\ inventoryFile.exists
    /\ inventoryFile.entries = <<>>
    /\ Len(reportRows) = 1
    /\ reportRows[1].symbol = "00919.TW"

-----------------------------------------------------------------------------
(* The dashboard's response cache: @st.cache_data(ttl=...) *)

\* ttl of get_price_data, load_inventory, scan_consecutive_buys,
\* scan_chip_concentration and run_full_scan
TTL_HOUR == 3600
\* ttl of get_chip_data
TTL_CHIP == 7200

\* a ttl that gives every cached function the same hour
TtlAllHourly(fn) == TTL_HOUR

\* the ttl each decorator gives its function
TtlOf(fn) == IF fn = "get_chip_data" THEN TTL_CHIP ELSE TTL_HOUR

\* an entry is served while the clock is before stored + ttl
Fresh(k) ==
    /\ cache[k].present
    /\ now < cache[k].stored + TtlOf(k.fn)

-----------------------------------------------------------------------------
(* Specification SpecCache: calls of the cached functions as time passes *)

\* seconds the clock advances in one step
TickSeconds == 1800
\* how many times it advances
MaxTicks == 4

\* the answers the provider may give
FeedVals == {1, 2}

InitCache ==
    /\ IdleStrength /\ IdleScan /\ IdleFetch /\ IdleReport /\ IdleInv /\ IdleSignal /\ IdleMail /\ IdleTop /\ IdleTs
    /\ now = 0
    /\ cache = [k \in CachedCalls |-> NoEntry]
    /\ feed \in FeedVals
    /\ lastRun = NoEntry
    /\ lastCall = NoCall

\* a call of a cached function: the stored result while it is fresh, else the
\* function body runs (contacting the provider) and its result is stored
CallCached(k) ==
    /\ IF Fresh(k)
       THEN /\ lastCall' = [made |-> TRUE, fn |-> k.fn, arg |-> k.arg,
                            contacted |-> FALSE, value |-> cache[k].value]
            /\ cache' = cache
       ELSE /\ lastCall' = [made |-> TRUE, fn |-> k.fn, arg |-> k.arg,
                            contacted |-> TRUE, value |-> feed]
            /\ cache' = [cache EXCEPT
                            ![k] = [present |-> TRUE, stored |-> now, value |-> feed]]
    /\ UNCHANGED <<now, feed, lastRun, restCache>>

\* a call of get_tw_chip_top_buys: the function body runs every time
CallUncached ==
    /\ lastCall' = [made |-> TRUE, fn |-> UncachedCall.fn, arg |-> UncachedCall.arg,
                    contacted |-> TRUE, value |-> feed]
    /\ lastRun' = [present |-> TRUE, stored |-> now, value |-> feed]
    /\ UNCHANGED <<now, cache, feed, restCache>>

\* the clear-cache button: st.cache_data.clear(), then the page reruns
ClearCache ==
    /\ cache' = [k \in CachedCalls |-> NoEntry]
    /\ lastRun' = NoEntry
    /\ lastCall' = NoCall
    /\ UNCHANGED <<now, feed, restCache>>

\* time passes
Tick ==
    /\ now < MaxTicks * TickSeconds
    /\ now' = now + TickSeconds
    /\ lastCall' = NoCall
    /\ UNCHANGED <<cache, feed, lastRun, restCache>>

\* the provider's data changes
FeedChanges ==
    /\ \E v \in FeedVals \ {feed} : feed' = v
    /\ lastCall' = NoCall
    /\ UNCHANGED <<now, cache, lastRun, restCache>>

NextCache ==
    \/ \E k \in CachedCalls : CallCached(k)
    \/ CallUncached
    \/ ClearCache
    \/ Tick
    \/ FeedChanges

SpecCache == InitCache /\ [][NextCache]_vars

-----------------------------------------------------------------------------
(* Claims about the cache, checked under SpecCache *)

\* the ttl the claim gives each function
ClaimedTtl(fn) == IF fn = "get_chip_data" THEN 7200 ELSE 3600

\* the last result of k computed since the cache was cleared
Computed(k) == IF k \in CachedCalls THEN cache[k] ELSE lastRun

\* the step is a call of k
IsCallOf(k) ==
    /\ lastCall'.made /\ lastCall'.fn = k.fn /\ lastCall'.arg = k.arg
    /\ now' = now /\ feed' = feed
    /\ (lastCall' # lastCall \/ cache' # cache \/ lastRun' # lastRun)

\* a call of k answers as the claim's cache would
AnswersFromCache(k) ==
    IsCallOf(k) =>
        IF Computed(k).present /\ now - Computed(k).stored < ClaimedTtl(k.fn)
        THEN /\ ~lastCall'.contacted
             /\ lastCall'.value = Computed(k).value
        ELSE /\ lastCall'.contacted
             /\ lastCall'.value = feed

\* C10: a call with the same arguments within the function's TTL (3600 s for
\* get_price_data, load_inventory and the scan functions, 7200 s for
\* get_chip_data) of the call that computed the result returns that result
\* without contacting the provider; the first call after the TTL has elapsed,
\* or after the cache was cleared, contacts the provider again.
C10_CacheTtl ==
    [][\A k \in CachedCalls \cup {UncachedCall} : AnswersFromCache(k)]_vars

\* C10 as the code has it: the above for the decorated functions
\* (get_price_data, load_inventory, scan_consecutive_buys,
\* scan_chip_concentration, run_full_scan: 3600 s; get_chip_data: 7200 s);
\* get_tw_chip_top_buys, called on its own, contacts the provider every time.
C10_DecoratedCacheTtl ==
    [][/\ \A k \in CachedCalls :
            /\ AnswersFromCache(k)
            /\ IsCallOf(k) =>
                  cache'[k] = IF lastCall'.contacted
                              THEN [present |-> TRUE, stored |-> now, value |-> feed]
                              ELSE cache[k]
       /\ IsCallOf(UncachedCall) =>
            lastCall'.contacted /\ lastCall'.value = feed
      ]_vars

\* C10 happens: get_chip_data answers from a result stored 5400 s ago that the
\* provider no longer gives, while get_price_data's result of the same age has
\* been fetched anew.
C10_Witness ==
    LET chip == [fn |-> "get_chip_data", arg |-> "2330.TW"]
        price == [fn |-> "get_price_data", arg |-> "2330.TW"]
    IN  /\ lastCall.made /\ lastCall.fn = "get_chip_data"
        /\ ~lastCall.contacted
        /\ cache[chip].present /\ now - cache[chip].stored = 5400
        /\ lastCall.value = cache[chip].value /\ lastCall.value # feed
        /\ cache[price].present /\ cache[price].stored = now /\ now = 5400

-----------------------------------------------------------------------------
(* The inventory loaders: DataEngine.load_inventory, load_inventory_for_report *)

\* Text is a sequence of one-character strings; a table row is the sequence
\* of its cells, the text between one | and the next.
DigitChars == {"0", "1", "2", "3", "5", "7"}

UpperChars == {"A", "B"}

DigitVal(c) ==
    CASE c = "0" -> 0 [] c = "1" -> 1 [] c = "2" -> 2 [] c = "3" -> 3
      [] c = "5" -> 5 [] c = "7" -> 7 [] OTHER -> 0

\* \s
IsSpace(c) == c = " "

\* str.strip()
RECURSIVE LStrip(_)
LStrip(s) ==
    IF s # <<>> /\ IsSpace(Head(s)) THEN LStrip(Tail(s)) ELSE s

RECURSIVE RStrip(_)
RStrip(s) ==
    IF s # <<>> /\ IsSpace(s[Len(s)]) THEN RStrip(SubSeq(s, 1, Len(s) - 1)) ELSE s

Strip(s) == LStrip(RStrip(s))

AllIn(s, chars) == \A i \in 1..Len(s) : s[i] \in chars

\* str.replace(c, '')
RECURSIVE Without(_, _)
Without(s, c) ==
    IF s = <<>> THEN <<>>
    ELSE IF Head(s) = c THEN Without(Tail(s), c)
    ELSE <<Head(s)>> \o Without(Tail(s), c)

\* a code pattern that takes any text
AnyCodeText(s) == Len(s) >= 1

\* \d{4,6}[A-Z]?
IsCodeText(s) ==
    \/ Len(s) \in 4..6 /\ AllIn(s, DigitChars)
    \/ /\ Len(s) \in 5..7
       /\ AllIn(SubSeq(s, 1, Len(s) - 1), DigitChars)
       /\ s[Len(s)] \in UpperChars

\* the positions of c in s
Positions(s, c) == {i \in 1..Len(s) : s[i] = c}

\* the first cell against \s*([^\|]+?)\s*\((\d{4,6}[A-Z]?)\)\s* : the name is
\* the shortest text of at least one character before a parenthesised code
\* that only blanks follow
NameCodeSplits(cell) ==
    LET t == RStrip(cell)
    IN  {i \in Positions(t, "(") :
            /\ i >= 2
            /\ t # <<>> /\ t[Len(t)] = ")"
            /\ IsCodeText(SubSeq(t, i + 1, Len(t) - 1))}

\* the second and third cells against \s*([\d,]+)\s* and \s*([\d,.]+)\s*
IsSharesText(cell) ==
    Strip(cell) # <<>> /\ AllIn(Strip(cell), DigitChars \cup {","})

IsPriceText(cell) ==
    Strip(cell) # <<>> /\ AllIn(Strip(cell), DigitChars \cup {",", "."})

\* the pattern on one table row, from the row's first |
RowMatches(row) ==
    /\ Len(row) >= 4
    /\ NameCodeSplits(row[1]) # {}
    /\ IsSharesText(row[2])
    /\ IsPriceText(row[3])

\* the five groups of a matching row
RowGroups(row) ==
    LET t == RStrip(row[1])
        i == CHOOSE k \in NameCodeSplits(row[1]) :
                \A j \in NameCodeSplits(row[1]) : k <= j
        \* the name gives the leading blanks back to \s* while one character remains
        raw_name == SubSeq(t, 1, i - 1)
        name == IF Strip(raw_name) = <<>> THEN <<raw_name[Len(raw_name)]>>
                ELSE Strip(raw_name)
    IN  [name |-> name,
         code |-> SubSeq(t, i + 1, Len(t) - 1),
         shares |-> Strip(row[2]),
         price |-> Strip(row[3]),
         note |-> Strip(row[4])]

\* re.findall over the file
RECURSIVE FindAll(_)
FindAll(file_rows) ==
    IF file_rows = <<>> THEN <<>>
    ELSE (IF RowMatches(Head(file_rows)) THEN <<RowGroups(Head(file_rows))>> ELSE <<>>)
         \o FindAll(Tail(file_rows))

\* the number a text of digits writes
RECURSIVE Decimal(_)
Decimal(s) ==
    IF s = <<>> THEN 0 ELSE 10 * Decimal(SubSeq(s, 1, Len(s) - 1)) + DigitVal(s[Len(s)])

RECURSIVE Pow10(_)
Pow10(n) == IF n = 0 THEN 1 ELSE 10 * Pow10(n - 1)

\* int(shares.strip().replace(',', '')): raises on the empty text
ParseInt(text) ==
    LET t == Without(Strip(text), ",")
    IN  IF t = <<>> \/ ~AllIn(t, DigitChars)
        THEN [raised |-> TRUE, val |-> 0]
        ELSE [raised |-> FALSE, val |-> Decimal(t)]

\* float(price.strip().replace(',', '')): one dot at most and a digit at least,
\* else it raises; the number is num / den
ParseFloat(text) ==
    LET t == Without(Strip(text), ",")
        dots == Positions(t, ".")
        digits == Without(t, ".")
    IN  IF digits = <<>> \/ Cardinality(dots) > 1 \/ ~AllIn(digits, DigitChars)
        THEN [raised |-> TRUE, num |-> 0, den |-> 1]
        ELSE [raised |-> FALSE, num |-> Decimal(digits),
              den |-> IF dots = {} THEN 1
                      ELSE Pow10(Len(t) - (CHOOSE d \in dots : TRUE))]

\* one entry of the list
InventoryEntry(groups) ==
    [name |-> Strip(groups.name),
     code |-> Strip(groups.code),
     symbol |-> Strip(groups.code) \o <<".", "T", "W">>,
     shares |-> ParseInt(groups.shares).val,
     avg_price |-> [num |-> ParseFloat(groups.price).num,
                    den |-> ParseFloat(groups.price).den],
     note |-> Strip(groups.note)]

-----------------------------------------------------------------------------
(* Specification SpecInventory: one call of either loader on some file *)

\* the most rows inventory.md has
MaxInvRows == 2

NameCells ==
    { <<" ", "T", " ", "(", "2", "3", "3", "0", ")", " ">>,
      <<"E", "(", "0", "0", "5", "0", "1", "A", ")">>,
      <<" ", "(", "2", "3", "3", "0", ")">>,
      <<"(", "2", "3", "3", "0", ")">>,
      <<"T", " ", "(", "2", "3", "3", ")">>,
      <<"T", " ", "(", "2", "3", "3", "0", "a", ")">>,
      <<"T", "(", "x", ")", "(", "0", "0", "5", "0", ")">>,
      <<" ", "n", "a", "m", "e", " ">>,
      <<"-", "-", "-">> }

SharesCells ==
    { <<" ", "1", ",", "0", "0", "0", " ">>, <<"7", "5">>, <<",">>,
      <<"-", "5">>, <<"1", ".", "5">>, <<" ">> }

PriceCells ==
    { <<" ", "2", "1", ".", "2", "5", " ">>, <<"5">>, <<"1", ",", "0", ".", "5">>,
      <<".", "5">>, <<"5", ".">>, <<".">>, <<"1", ".", "2", ".", "3">>,
      <<"-", "1">>, <<"x">> }

GoodRow == << <<" ", "T", " ", "(", "2", "3", "3", "0", ")", " ">>, <<"7", "5">>,
              <<"5">>, <<" ", "x", " ">> >>

\* the rows a file may hold: the good row with one cell replaced, a row with
\* the note cell missing, and a row with nothing in it
InvRows ==
    { [GoodRow EXCEPT ![1] = c] : c \in NameCells }
    \cup { [GoodRow EXCEPT ![2] = c] : c \in SharesCells }
    \cup { [GoodRow EXCEPT ![3] = c] : c \in PriceCells }
    \cup { SubSeq(GoodRow, 1, 3), <<>> }

InitInventory ==
    /\ IdleStrength /\ IdleScan /\ IdleFetch /\ IdleReport /\ IdleCache /\ IdleSignal /\ IdleMail /\ IdleTop /\ IdleTs
    /\ invLoader \in {"engine", "report"}
    /\ invFile \in
          { [exists |-> FALSE, rows |-> <<>>] }
          \cup { [exists |-> TRUE, rows |-> rs] :
                    rs \in UNION {[1..n -> InvRows] : n \in 0..MaxInvRows} }
    /\ invMatches = <<>>
    /\ invPos = 0
    /\ invOut = <<>>
    /\ invPc = "start"

\* the file is missing: the empty list; else the file is read and searched
ReadInventory ==
    /\ invPc = "start"
    /\ IF invFile.exists
       THEN invMatches' = FindAll(invFile.rows) /\ invPc' = "loop"
       ELSE invMatches' = <<>> /\ invPc' = "done"
    /\ UNCHANGED <<invLoader, invFile, invPos, invOut, restInv>>

\* one round of the loop: the entry is appended, or int() / float() raises;
\* DataEngine.load_inventory catches that and returns [], the report's loader
\* has no handler
AppendEntry ==
    /\ invPc = "loop"
    /\ invPos < Len(invMatches)
    /\ LET groups == invMatches[invPos + 1]
       IN  IF ParseInt(groups.shares).raised \/ ParseFloat(groups.price).raised
           THEN /\ invOut' = <<>>
                /\ invPos' = invPos
                /\ invPc' = IF invLoader = "engine" THEN "done" ELSE "raised"
           ELSE /\ invOut' = Append(invOut, InventoryEntry(groups))
                /\ invPos' = invPos + 1
                /\ invPc' = invPc
    /\ UNCHANGED <<invLoader, invFile, invMatches, restInv>>

\* return inventory
ReturnInventory ==
    /\ invPc = "loop"
    /\ invPos = Len(invMatches)
    /\ invPc' = "done"
    /\ UNCHANGED <<invLoader, invFile, invMatches, invPos, invOut, restInv>>

NextInventory ==
    \/ ReadInventory
    \/ AppendEntry
    \/ ReturnInventory

SpecInventory == InitInventory /\ [][NextInventory]_vars

-----------------------------------------------------------------------------
(* Claims about the inventory loaders, checked under SpecInventory *)

\* a row of the inventory pattern, said without the loader's operators: a
\* first cell ending (blanks aside) in a parenthesised code with some text
\* before it, a cell of digits and commas, a cell of digits, commas and dots,
\* and a fourth cell
PatternRow(row) ==
    /\ Len(row) >= 4
    /\ \E i \in 2..Len(row[1]), j \in 1..Len(row[1]) :
          /\ i < j
          /\ row[1][i] = "(" /\ row[1][j] = ")"
          /\ \A k \in (j + 1)..Len(row[1]) : row[1][k] = " "
          /\ LET code == [k \in 1..(j - i - 1) |-> row[1][i + k]]
             IN  \E d \in 4..6 :
                    /\ Len(code) \in {d, d + 1}
                    /\ \A k \in 1..d : code[k] \in DigitChars
                    /\ Len(code) = d + 1 => code[d + 1] \in UpperChars
    /\ \E k \in 1..Len(row[2]) : row[2][k] # " "
    /\ \A k \in 1..Len(row[2]) : row[2][k] \in DigitChars \cup {",", " "}
    /\ \A a, b, c \in 1..Len(row[2]) :
          (a < b /\ b < c /\ row[2][a] # " " /\ row[2][c] # " ") => row[2][b] # " "
    /\ \E k \in 1..Len(row[3]) : row[3][k] # " "
    /\ \A k \in 1..Len(row[3]) : row[3][k] \in DigitChars \cup {",", ".", " "}
    /\ \A a, b, c \in 1..Len(row[3]) :
          (a < b /\ b < c /\ row[3][a] # " " /\ row[3][c] # " ") => row[3][b] # " "

\* the file's rows of the pattern, in order
PatternRowsOf(file_rows) ==
    LET idx == {i \in 1..Len(file_rows) : PatternRow(file_rows[i])}
    IN  Cardinality(idx)

\* an entry as the claim describes it
WellFormedEntry(e) ==
    /\ \E d \in 4..6 :
          /\ Len(e.code) \in {d, d + 1}
          /\ \A k \in 1..d : e.code[k] \in DigitChars
          /\ Len(e.code) = d + 1 => e.code[d + 1] \in UpperChars
    /\ e.symbol = e.code \o <<".", "T", "W">>
    /\ e.shares \in Nat
    /\ e.avg_price.num \in Nat /\ e.avg_price.den > 0

\* C11: every entry either loader returns comes from a table row matching the
\* inventory pattern: its code is 4 to 6 digits optionally followed by one
\* uppercase letter, its symbol is code + '.TW', shares is a non-negative
\* integer and avg_price a non-negative number; rows that do not match give no
\* entry, and a missing file gives the empty list.
C11_InventoryFormat ==
    /\ \A i \in 1..Len(invOut) : WellFormedEntry(invOut[i])
    /\ Len(invOut) <= PatternRowsOf(invFile.rows)
    /\ \A i \in 1..Len(invOut) :
          \E r \in 1..Len(invFile.rows) :
              /\ PatternRow(invFile.rows[r])
              /\ invOut[i].code = RowGroups(invFile.rows[r]).code
              /\ i <= r
    /\ (invPc = "done" /\ ~invFile.exists) => invOut = <<>>

\* C11 happens: a file with a row outside the pattern and a row of the pattern
\* whose price is " 21.25 " gives the one entry, at 2125 / 100
C11_Witness ==
    /\ invPc = "done"
    /\ Len(invFile.rows) = 2
    /\ ~PatternRow(invFile.rows[1])
    /\ PatternRow(invFile.rows[2])
    /\ Len(invOut) = 1
    /\ invOut[1].avg_price = [num |-> 2125, den |-> 100]
    /\ invOut[1].code = <<"2", "3", "3", "0">>

\* a row of the pattern does not always give an entry: "," and "." pass the
\* pattern and int() / float() refuse them; the report's loader then raises
C11_PatternRowLost ==
    invPc = "raised" =>
        /\ invLoader = "report"
        /\ \E r \in 1..Len(invFile.rows) :
              /\ PatternRow(invFile.rows[r])
              /\ \/ ParseInt(invFile.rows[r][2]).raised
                 \/ ParseFloat(invFile.rows[r][3]).raised

-----------------------------------------------------------------------------
(* DataEngine.check_right_side_signal *)

\* pd.notna(x)
NotNa(x) == ~x.na

\* a > b on floats: false when either is NaN
Gt(a, b) == ~a.na /\ ~b.na /\ a.val > b.val

\* a 5MA that counts a flat one as rising
Ma5UpOrFlat(ma5, prev_row) ==
    LET prev_ma5 == IF NotNa(prev_row.MA5) THEN prev_row.MA5 ELSE ma5
    IN  ~Gt(prev_ma5, ma5)

\* condition 2: ma5 > prev_ma5, the previous 5MA being ma5 itself when missing
Ma5Up(ma5, prev_row) ==
    LET prev_ma5 == IF NotNa(prev_row.MA5) THEN prev_row.MA5 ELSE ma5
    IN  Gt(ma5, prev_ma5)

\* The labels, in pinyin: wuziliao (無資料), ziliaobuzu (資料不足),
\* qiangshiduotou (強勢多頭 (右側確認)), pianduozhengli (偏多整理),
\* diepoyuexian (跌破月線 (謹慎)), guanwang (觀望)
check_right_side_signal(df) ==
    IF df = <<>> \/ Len(df) < 2 THEN "wuziliao"
    ELSE LET last == df[Len(df)]
             prev == df[Len(df) - 1]
             close == last.Close
             ma5 == last.MA5
             ma10 == last.MA10
             ma20 == last.MA20
         IN  IF ~NotNa(ma5) \/ ~NotNa(ma10) THEN "ziliaobuzu"
             ELSE LET above_ma == Gt(close, ma5) /\ Gt(close, ma10)
                      ma5_up == Ma5Up(ma5, prev)
                  IN  IF above_ma /\ ma5_up THEN "qiangshiduotou"
                      ELSE IF above_ma THEN "pianduozhengli"
                      ELSE IF NotNa(ma20) /\ Gt(ma20, close) THEN "diepoyuexian"
                      ELSE "guanwang"

-----------------------------------------------------------------------------
(* Specification SpecSignal: a price table, then the call *)

\* the most rows of the price table
MaxSignalRows == 3

\* closes and averages
PriceVals == {9, 10, 11}

MaCells == {Cell(v) : v \in PriceVals} \cup {NaN}

\* the latest rows: any close and any averages
LatestRows ==
    [Close : MaCells, MA5 : MaCells, MA10 : {Cell(10), NaN},
     MA20 : {Cell(10), NaN}]

\* the rows before: any 5MA
EarlierRows ==
    [Close : {Cell(10)}, MA5 : MaCells, MA10 : {NaN}, MA20 : {NaN}]

InitSignal ==
    /\ IdleStrength /\ IdleScan /\ IdleFetch /\ IdleReport /\ IdleCache /\ IdleInv /\ IdleMail /\ IdleTop /\ IdleTs
    /\ signal_df = <<>>
    /\ signal = "None"
    /\ signalPc = "input"

\* get_price_data delivers an earlier row
PriceRow ==
    /\ signalPc = "input"
    /\ Len(signal_df) < MaxSignalRows - 1
    /\ \E r \in EarlierRows : signal_df' = Append(signal_df, r)
    /\ UNCHANGED <<signal, signalPc, restSignal>>

\* get_price_data delivers the latest row
LatestPriceRow ==
    /\ signalPc = "input"
    /\ \E r \in LatestRows : signal_df' = Append(signal_df, r)
    /\ signalPc' = "ready"
    /\ UNCHANGED <<signal, restSignal>>

\* signal = engine.check_right_side_signal(price_df)
CheckRightSideSignal ==
    /\ signalPc \in {"input", "ready"}
    /\ signal' = check_right_side_signal(signal_df)
    /\ signalPc' = "done"
    /\ UNCHANGED <<signal_df, restSignal>>

NextSignal ==
    \/ PriceRow
    \/ LatestPriceRow
    \/ CheckRightSideSignal

SpecSignal == InitSignal /\ [][NextSignal]_vars

-----------------------------------------------------------------------------
(* Claims about check_right_side_signal, checked under SpecSignal *)

\* x is a number above y, a number
Above(x, y) == x.na = FALSE /\ y.na = FALSE /\ x.val - y.val >= 1

\* C12: check_right_side_signal returns exactly one label: wuziliao under 2
\* rows; ziliaobuzu when the latest MA5 or MA10 is missing; qiangshiduotou iff
\* the latest close is above MA5 and MA10 and the latest MA5 is above the
\* previous one; pianduozhengli iff the close is above both and MA5 is not
\* rising; otherwise diepoyuexian iff MA20 is present and the close is below
\* it; otherwise guanwang.
C12_RightSideSignal ==
    signalPc = "done" =>
        LET n == Len(signal_df)
            last == signal_df[n]
            prev == signal_df[n - 1]
            short == n < 2
            lacking == ~short /\ (last.MA5.na \/ last.MA10.na)
            judged == ~short /\ ~lacking
            above == Above(last.Close, last.MA5) /\ Above(last.Close, last.MA10)
            rising == Above(last.MA5, prev.MA5)
            below20 == Above(last.MA20, last.Close)
        IN  /\ signal \in {"wuziliao", "ziliaobuzu", "qiangshiduotou",
                           "pianduozhengli", "diepoyuexian", "guanwang"}
            /\ short => signal = "wuziliao"
            /\ lacking => signal = "ziliaobuzu"
            /\ judged => /\ signal = "qiangshiduotou" <=> (above /\ rising)
                         /\ signal = "pianduozhengli" <=> (above /\ ~rising)
                         /\ signal = "diepoyuexian" <=> (~above /\ below20)
                         /\ signal = "guanwang" <=> (~above /\ ~below20)

\* C12 happens: the close is above both averages and the 5MA stands where it
\* stood the day before, which gives pianduozhengli
C12_Witness ==
    /\ signalPc = "done"
    /\ Len(signal_df) >= 2
    /\ signal = "pianduozhengli"
    /\ signal_df[Len(signal_df)].MA5 = signal_df[Len(signal_df) - 1].MA5
    /\ ~signal_df[Len(signal_df)].MA5.na

-----------------------------------------------------------------------------
(* Claims about the order of scan_consecutive_buys' result, under SpecScan *)

\* the row is one of both institutions buying N days running
BothBuying(r) == r.foreign_days >= scanArg /\ r.trust_days >= scanArg

BuyDays(r) == r.foreign_days + r.trust_days

\* C13: in scan_consecutive_buys' result every row tagged
\* tuyang-tongbu-lianmai (土洋同步連買: foreign and trust streaks both >= N)
\* precedes every row without that tag, and within each group the rows are in
\* descending order of consecutive-buy days.
C13_SyncRowsFirst ==
    (scanFn = "consecutive" /\ scanPc = "done") =>
        \A i, j \in 1..Len(results) :
            i < j =>
                /\ (results[i].tag = "tuyang-tongbu-lianmai") = BothBuying(results[i])
                /\ BothBuying(results[j]) => BothBuying(results[i])
                /\ BothBuying(results[i]) = BothBuying(results[j]) =>
                      BuyDays(results[i]) >= BuyDays(results[j])

\* what the sort does give: descending order of the two streaks added up
C13_SortedByBuyDays ==
    (scanFn = "consecutive" /\ scanPc = "done") =>
        \A i, j \in 1..Len(results) :
            i < j => BuyDays(results[i]) >= BuyDays(results[j])

\* a row of one institution with a long streak ahead of a row of both
C13_OneSidedRowAhead ==
    /\ scanFn = "consecutive" /\ scanPc = "done"
    /\ Len(results) = 2
    /\ ~BothBuying(results[1])
    /\ BothBuying(results[2])

-----------------------------------------------------------------------------
(* main and send_email *)

\* sender, the default of GMAIL_RECIPIENTS (one letter stands for the address)
Sender == <<"a">>

\* str.replace(",", ";")
CommasToSemicolons(text) ==
    [i \in 1..Len(text) |-> IF text[i] = "," THEN ";" ELSE text[i]]

\* str.split(";"): the pieces between the semicolons, empty ones included
RECURSIVE SplitSemicolon(_, _)
SplitSemicolon(text, piece) ==
    IF text = <<>> THEN <<piece>>
    ELSE IF Head(text) = ";" THEN <<piece>> \o SplitSemicolon(Tail(text), <<>>)
    ELSE SplitSemicolon(Tail(text), Append(piece, Head(text)))

\* a parse that keeps the empty pieces
RecipientsKeepingEmpty(text) ==
    LET pieces == SplitSemicolon(CommasToSemicolons(text), <<>>)
    IN  [i \in 1..Len(pieces) |-> Strip(pieces[i])]

\* [r.strip() for r in recipients_raw.replace(",", ";").split(";") if r.strip()]
ParseRecipients(text) ==
    LET pieces == SplitSemicolon(CommasToSemicolons(text), <<>>)
        kept == SelectSeq(pieces, LAMBDA r : Strip(r) # <<>>)
    IN  [i \in 1..Len(kept) |-> Strip(kept[i])]

\* the operations of the with block, in order
SmtpSteps == <<"connect", "starttls", "login", "sendmail">>

-----------------------------------------------------------------------------
(* Specification SpecMain: main, from the arguments to the mail *)

\* the longest GMAIL_RECIPIENTS
MaxRawLen == 3

RawChars == {"a", " ", ";", ","}

\* GMAIL_RECIPIENTS: unset, or some text (the empty text too)
RecipientSettings ==
    { [set |-> FALSE, text |-> <<>>] }
    \cup { [set |-> TRUE, text |-> t] :
              t \in UNION {[1..n -> RawChars] : n \in 0..MaxRawLen} }

\* the report is the one of the default holding: no inventory.md, no AI key
InitMain ==
    /\ IdleStrength /\ IdleScan /\ IdleFetch /\ IdleCache /\ IdleInv /\ IdleSignal /\ IdleTop /\ IdleTs
    /\ dry_run \in BOOLEAN
    /\ api_key = FALSE
    /\ inventoryFile = [exists |-> FALSE, entries |-> <<>>]
    /\ inventory = <<>>
    /\ itemPos = 0
    /\ reportRows = <<>>
    /\ apiCalls = <<>>
    /\ reportPc = "start"
    /\ send_email_flag \in BOOLEAN
    /\ app_password = FALSE
    /\ recipients_raw = <<>>
    /\ recipients = <<>>
    /\ smtp = <<>>
    /\ mailRes = "None"
    /\ mainPc = "report"

\* build_report's steps, inside main
MainReportStep ==
    /\ mainPc = "report"
    /\ \/ LoadInventory
       \/ FetchBenchmark
       \/ ReportItem
       \/ AIOutlook
       \/ Weather
       \/ SaveReport
    /\ UNCHANGED mailVars

\* if args.send_email is false main is over
MainWithoutEmail ==
    /\ mainPc = "report"
    /\ reportPc = "saved"
    /\ ~send_email_flag
    /\ mainPc' = "finished"
    /\ UNCHANGED <<send_email_flag, app_password, recipients_raw, recipients, smtp,
                   mailRes, restMail>>

\* send_email up to its try: the settings are read, and without a password
\* or without a recipient it returns False
SendEmailChecks ==
    /\ mainPc = "report"
    /\ reportPc = "saved"
    /\ send_email_flag
    /\ \E pw \in BOOLEAN, setting \in RecipientSettings :
          LET text == IF setting.set THEN setting.text ELSE Sender
              parsed == ParseRecipients(text)
          IN  /\ app_password' = pw
              /\ recipients_raw' = text
              /\ recipients' = parsed
              /\ IF ~pw \/ parsed = <<>>
                 THEN mailRes' = "False" /\ mainPc' = "finished"
                 ELSE mailRes' = mailRes /\ mainPc' = "smtp"
    /\ UNCHANGED <<send_email_flag, smtp, restMail>>

\* the try: the connection and the three operations on it; the first that
\* raises ends the block and the function returns False
SmtpSession ==
    /\ mainPc = "smtp"
    /\ \E done \in 0..Len(SmtpSteps) :
          \* done operations went through; the next one, if any, raised
          /\ smtp' = [k \in 1..Min(done + 1, Len(SmtpSteps)) |->
                        [op |-> SmtpSteps[k], raised |-> k > done]]
          /\ mailRes' = IF done = Len(SmtpSteps) THEN "True" ELSE "False"
    /\ mainPc' = "finished"
    /\ UNCHANGED <<send_email_flag, app_password, recipients_raw, recipients,
                   restMail>>

NextMain ==
    \/ MainReportStep
    \/ MainWithoutEmail
    \/ SendEmailChecks
    \/ SmtpSession

SpecMain == InitMain /\ [][NextMain]_vars

-----------------------------------------------------------------------------
(* Claims about the mail, checked under SpecMain *)

\* the text names a recipient: something in it is no blank and no separator
NamesRecipient(text) == \E i \in 1..Len(text) : text[i] \notin {" ", ",", ";"}

\* C14: an SMTP connection is opened only if --send-email was given, the
\* report files are written, GMAIL_APP_PASSWORD is set and the parsed
\* recipient list is not empty; without a password or without a recipient
\* send_email returns False without connecting; it returns True only when the
\* SMTP send went through without an exception.
C14_EmailSending ==
    /\ smtp # <<>> =>
          /\ send_email_flag
          /\ reportPc = "saved"
          /\ app_password
          /\ NamesRecipient(recipients_raw)
          /\ recipients # <<>>
          /\ \A i \in 1..Len(recipients) : NamesRecipient(recipients[i])
    /\ (mailRes # "None" /\ (~app_password \/ ~NamesRecipient(recipients_raw))) =>
          mailRes = "False" /\ smtp = <<>>
    /\ mailRes = "True" =>
          /\ Len(smtp) = 4
          /\ smtp[1].op = "connect" /\ smtp[4].op = "sendmail"
          /\ \A k \in 1..4 : ~smtp[k].raised

\* C14 happens: two recipients out of a text with a separator, and the mail
\* goes out
C14_Witness ==
    /\ mailRes = "True"
    /\ Len(recipients_raw) = 3
    /\ recipients = << <<"a">>, <<"a">> >>
    /\ ~dry_run

\* C14 happens: separators and blanks only, and no connection
C14_NoRecipient ==
    /\ mailRes = "False"
    /\ app_password
    /\ recipients_raw = <<" ", ";", ",">>
    /\ smtp = <<>>

-----------------------------------------------------------------------------
(* get_tw_chip_top_buys: the single-day scan *)

\* The provider's answer is a set of records [date, name, buy, sell], dates
\* being day numbers (the code's date strings order the same way).
RECURSIVE SumOver(_, _)
SumOver(recs, field) ==
    IF recs = {} THEN 0
    ELSE LET r == CHOOSE x \in recs : TRUE
         IN  r[field] + SumOver(recs \ {r}, field)

\* latest[cond]['buy'].sum() - latest[cond]['sell'].sum()
NetBuy(recs) == SumOver(recs, "buy") - SumOver(recs, "sell")

\* df['date'].max()
MaxDate(df) == CHOOSE d \in {r.date : r \in df} : \A r \in df : r.date <= d

\* a latest day that is the whole answer
WholeAnswer(df) == df

\* df[df['date'] == latest_date]
LatestRecords(df) == {r \in df : r.date = MaxDate(df)}

\* one pass of the loop: the rows appended for a target (none, or one)
TopBuysRows(stock_id, answer) ==
    IF answer.kind # "table" \/ answer.records = {} THEN <<>>
    ELSE LET df == answer.records
             latest_date == MaxDate(df)
             latest == LatestRecords(df)
             foreign == NetBuy({r \in latest : r.name = "Foreign_Investor"})
             trust == NetBuy({r \in latest : r.name = "Investment_Trust"})
             dealer == NetBuy({r \in latest : HasSub(r.name, "Dealer")})
         IN  << [Stock |-> stock_id, Date |-> latest_date,
                 Foreign |-> TruncDiv(foreign, 1000),
                 Trust |-> TruncDiv(trust, 1000),
                 Dealer |-> TruncDiv(dealer, 1000),
                 Total |-> TruncDiv(foreign + trust + dealer, 1000)] >>

-----------------------------------------------------------------------------
(* Specification SpecTopBuys: one run of get_tw_chip_top_buys *)

\* the days an answer may cover
MaxTopDates == 2

\* what one institution trades on one day: buy and sell, in shares
TopTrades(name) ==
    CASE name = "Foreign_Investor"    -> { [buy |-> 4000, sell |-> 1500],
                                           [buy |-> 0, sell |-> 1500] }
      [] name = "Investment_Trust"    -> { [buy |-> 1200, sell |-> 0] }
      [] name = "Foreign_Dealer_Self" -> { [buy |-> 800, sell |-> 0] }
      [] OTHER                        -> {}

TopNames == {"Foreign_Investor", "Investment_Trust", "Foreign_Dealer_Self"}

\* the records of one day: for each institution none or one
DayRecordSets(d) ==
    LET picks == {f \in [TopNames -> UNION {TopTrades(n) : n \in TopNames}] :
                    \A n \in TopNames : f[n] \in TopTrades(n)}
    IN  { { [date |-> d, name |-> n, buy |-> pick[n].buy, sell |-> pick[n].sell] :
              n \in present } :
          present \in SUBSET TopNames, pick \in picks }

RECURSIVE TablesUpTo(_)
TablesUpTo(d) ==
    IF d = 0 THEN {{}}
    ELSE { t \cup day : t \in TablesUpTo(d - 1), day \in DayRecordSets(d) }

\* the provider raises, or answers with a table (which may be empty)
TopAnswers ==
    { [kind |-> "raise", records |-> {}] }
    \cup { [kind |-> "table", records |-> t] : t \in TablesUpTo(MaxTopDates) }

InitTopBuys ==
    /\ IdleStrength /\ IdleScan /\ IdleFetch /\ IdleReport /\ IdleCache /\ IdleInv /\ IdleTs
    /\ IdleSignal /\ IdleMail /\ IdleTs
    /\ top_df = [kind |-> "none", records |-> {}]
    /\ top_results = <<>>
    /\ topPos = 0
    /\ topPc = "loop"

\* dl.taiwan_stock_institutional_investors for the next target
TopFetch ==
    /\ topPc = "loop"
    /\ topPos < Len(SCAN_TARGETS)
    /\ top_df' \in TopAnswers
    /\ topPc' = "answered"
    /\ UNCHANGED <<top_results, topPos, restTop>>

\* the rest of the loop body
TopTarget ==
    /\ topPc = "answered"
    /\ top_results' = top_results \o TopBuysRows(SCAN_TARGETS[topPos + 1], top_df)
    /\ topPos' = topPos + 1
    /\ topPc' = "loop"
    /\ UNCHANGED <<top_df, restTop>>

\* after the loop: the rows sorted by Total, descending
TopReturn ==
    /\ topPc = "loop"
    /\ topPos = Len(SCAN_TARGETS)
    /\ top_results' \in SortedOrders("single_day", top_results)
    /\ topPc' = "done"
    /\ UNCHANGED <<top_df, topPos, restTop>>

NextTopBuys ==
    \/ TopFetch
    \/ TopTarget
    \/ TopReturn

SpecTopBuys == InitTopBuys /\ [][NextTopBuys]_vars

-----------------------------------------------------------------------------
(* Claims about get_tw_chip_top_buys, checked under SpecTopBuys *)

TopRowsOf(stock_id) == SelectSeq(top_results, LAMBDA r : r.Stock = stock_id)

\* the net buy, in lots, of the institutions in names on day d
LotsOn(df, d, names) ==
    TruncDiv(NetBuy({r \in df : r.date = d /\ r.name \in names}), 1000)

\* the target the loop has just dealt with, against the provider's answer
TopTargetClaim ==
    LET rows == TopRowsOf(SCAN_TARGETS[topPos])
        df == top_df.records
    IN  /\ Len(rows) = 1 <=> (top_df.kind = "table" /\ df # {})
        /\ Len(rows) = 1 =>
              LET d == rows[1].Date
              IN  /\ \E r \in df : r.date = d
                  /\ \A r \in df : r.date <= d
                  /\ rows[1].Foreign = LotsOn(df, d, {"Foreign_Investor"})
                  /\ rows[1].Trust = LotsOn(df, d, {"Investment_Trust"})
                  /\ rows[1].Dealer =
                        LotsOn(df, d, {"Foreign_Dealer_Self", "Dealer_self",
                                       "Dealer_Hedging"})

TopRowsClaim ==
    /\ \A k \in 1..Len(SCAN_TARGETS) : Len(TopRowsOf(SCAN_TARGETS[k])) <= 1
    /\ (topPos >= 1 /\ topPc \in {"loop", "done"}) => TopTargetClaim
    /\ topPc = "done" =>
          \A i \in 1..(Len(top_results) - 1) :
              top_results[i].Total >= top_results[i + 1].Total

\* a pass of the loop leaves the rows of the targets before as they are
TopOthersKept ==
    topPc = "answered" =>
        SelectSeq(top_results', LAMBDA r : r.Stock # SCAN_TARGETS[topPos + 1])
            = top_results

-----------------------------------------------------------------------------
(* _generate_future_timestamps *)

\* datetime.weekday() of a day number
Weekday(d) == d % 7

\* a test that lets Saturdays through
WeekdayOrSaturday(d) == Weekday(d) < 5 + 1

\* current.weekday() < 5
IsWeekday(d) == Weekday(d) < 5

-----------------------------------------------------------------------------
(* Specification SpecTimestamps: one call, which keeps running until it returns *)

\* the most days asked for
MaxPredDays == 6

InitTimestamps ==
    /\ IdleStrength /\ IdleScan /\ IdleFetch /\ IdleReport /\ IdleCache /\ IdleInv
    /\ IdleSignal /\ IdleMail /\ IdleTop
    /\ last_date \in 0..6
    /\ pred_days \in 0..MaxPredDays
    /\ current = last_date
    /\ added = 0
    /\ future_dates = <<>>
    /\ tsPc = "loop"

\* one round of the while loop
NextDay ==
    /\ tsPc = "loop"
    /\ added < pred_days
    /\ current' = current + 1
    /\ IF IsWeekday(current + 1)
       THEN future_dates' = Append(future_dates, current + 1) /\ added' = added + 1
       ELSE future_dates' = future_dates /\ added' = added
    /\ UNCHANGED <<last_date, pred_days, tsPc, restTs>>

\* the loop is over: the series is returned
ReturnTimestamps ==
    /\ tsPc = "loop"
    /\ ~(added < pred_days)
    /\ tsPc' = "done"
    /\ UNCHANGED <<last_date, pred_days, current, added, future_dates, restTs>>

NextTimestamps ==
    \/ NextDay
    \/ ReturnTimestamps

SpecTimestamps ==
    InitTimestamps /\ [][NextTimestamps]_vars /\ WF_vars(NextTimestamps)

-----------------------------------------------------------------------------
(* Claims about _generate_future_timestamps, checked under SpecTimestamps *)

\* the series as the claim describes it
FirstWeekdaysAfter ==
    LET n == Len(future_dates)
    IN  /\ n = pred_days
        /\ \A i \in 1..(n - 1) : future_dates[i] < future_dates[i + 1]
        /\ \A i \in 1..n : future_dates[i] > last_date
        /\ \A i \in 1..n : future_dates[i] % 7 \notin {5, 6}
        /\ n >= 1 =>
              \A d \in (last_date + 1)..future_dates[n] :
                  d % 7 \notin {5, 6} => \E i \in 1..n : future_dates[i] = d

\* C16: _generate_future_timestamps(last_date, n) terminates for every n >= 0
\* and returns exactly n timestamps, strictly increasing, all later than
\* last_date, none on a Saturday or Sunday: the first n weekdays after
\* last_date, none skipped.
C16_FutureTimestamps ==
    /\ [](tsPc = "done" => FirstWeekdaysAfter)
    /\ <>(tsPc = "done")

\* C16 happens: six days asked for on a Friday, two weekends passed over
C16_Witness ==
    /\ tsPc = "done"
    /\ last_date = 4
    /\ pred_days = 6
    /\ future_dates = <<7, 8, 9, 10, 11, 14>>

====
